---- MODULE Spec2Model ----
(***************************************************************************)
(* RBackup: configuration-driven orchestrator of rclone/rsync/ssh jobs.    *)
(* The model covers the Path Resolver (utils/path.py), the Variable        *)
(* Environment (utils/env.py), the Command-Line Builder (Job.prepare), the *)
(* Job Executor (Job.execute/runJob/runTask) and the Run Orchestrator      *)
(* (main.run_backups).  Strings are TLA+ strings handled character by      *)
(* character with Len, SubSeq and \o.  The platform is POSIX (posixpath,   *)
(* PurePosixPath), so the Windows branch of posix_path is not taken.       *)
(***************************************************************************)
EXTENDS Integers, Sequences, FiniteSets, TLC

(***************************************************************************)
(* Python values                                                           *)
(***************************************************************************)
\* Python's None (never a legal input text).
None == "<None>"

\* A key that is missing from a dict (dict.get gives its default, d[k] raises).
Unset == "<unset>"

\* the Python value False where a string can stand as well
False == "<False>"

\* Characters matched by \w under re.ASCII (os.path.expandvars).
WordChars ==
    {"a","b","c","d","e","f","g","h","i","j","k","l","m","n","o","p","q","r",
     "s","t","u","v","w","x","y","z","A","B","C","D","E","F","G","H","I","J",
     "K","L","M","N","O","P","Q","R","S","T","U","V","W","X","Y","Z","0","1",
     "2","3","4","5","6","7","8","9","_"}

\* Characters removed by str.strip() that occur in the inputs.
WhiteSpace == {" ", "\t", "\n"}

(***************************************************************************)
(* String helpers (str methods of Python)                                  *)
(***************************************************************************)
CharAt(s, i) == SubSeq(s, i, i)

StartsWith(s, p) == Len(s) >= Len(p) /\ SubSeq(s, 1, Len(p)) = p

EndsWith(s, p) == Len(s) >= Len(p) /\ SubSeq(s, Len(s) - Len(p) + 1, Len(s)) = p

\* index of the first occurrence of character c at or after i, or 0
RECURSIVE FindChar(_, _, _)
FindChar(s, c, i) ==
    IF i > Len(s) THEN 0
    ELSE IF CharAt(s, i) = c THEN i
    ELSE FindChar(s, c, i + 1)

Contains(s, c) == FindChar(s, c, 1) # 0

\* str.replace(old, new) for a single character old
RECURSIVE Replace(_, _, _)
Replace(s, old, new) ==
    IF s = "" THEN ""
    ELSE (IF CharAt(s, 1) = old THEN new ELSE CharAt(s, 1))
         \o Replace(SubSeq(s, 2, Len(s)), old, new)

RECURSIVE LStrip(_)
LStrip(s) ==
    IF s # "" /\ CharAt(s, 1) \in WhiteSpace THEN LStrip(SubSeq(s, 2, Len(s)))
    ELSE s

RECURSIVE RStrip(_)
RStrip(s) ==
    IF s # "" /\ CharAt(s, Len(s)) \in WhiteSpace
    THEN RStrip(SubSeq(s, 1, Len(s) - 1))
    ELSE s

\* str.strip()
Strip(s) == LStrip(RStrip(s))

\* str.split('/'): the components between separators, empty ones included
RECURSIVE SplitSlash(_)
SplitSlash(s) ==
    LET k == FindChar(s, "/", 1)
    IN  IF k = 0 THEN <<s>>
        ELSE <<SubSeq(s, 1, k - 1)>> \o SplitSlash(SubSeq(s, k + 1, Len(s)))

\* '/'.join(comps)
RECURSIVE JoinSlash(_)
JoinSlash(comps) ==
    IF comps = <<>> THEN ""
    ELSE IF Len(comps) = 1 THEN comps[1]
    ELSE comps[1] \o "/" \o JoinSlash(Tail(comps))

\* number of leading '/' characters
RECURSIVE LeadingSlashes(_)
LeadingSlashes(s) ==
    IF s # "" /\ CharAt(s, 1) = "/" THEN 1 + LeadingSlashes(SubSeq(s, 2, Len(s)))
    ELSE 0

(***************************************************************************)
(* os.path.join, pathlib.Path(...).as_posix(), os.path.expandvars and      *)
(* os.path.normpath, as posix_path calls them                              *)
(***************************************************************************)
\* posixpath.join(a, b): an absolute b discards a
Join2(a, b) ==
    IF StartsWith(b, "/") THEN b
    ELSE IF a = "" \/ EndsWith(a, "/") THEN a \o b
    ELSE a \o "/" \o b

RECURSIVE OsPathJoin(_, _)
OsPathJoin(a, rest) ==
    IF rest = <<>> THEN a ELSE OsPathJoin(Join2(a, rest[1]), Tail(rest))

\* the components PurePosixPath keeps: non-empty and not '.'
RECURSIVE DropEmptyAndDot(_)
DropEmptyAndDot(comps) ==
    IF comps = <<>> THEN <<>>
    ELSE (IF comps[1] \in {"", "."} THEN <<>> ELSE <<comps[1]>>)
         \o DropEmptyAndDot(Tail(comps))

\* str(PurePosixPath(s)): root is '//' for exactly two leading slashes
AsPosix(s) ==
    LET n    == LeadingSlashes(s)
        root == IF n = 0 THEN "" ELSE IF n = 2 THEN "//" ELSE "/"
        body == JoinSlash(DropEmptyAndDot(SplitSlash(SubSeq(s, n + 1, Len(s)))))
        str  == root \o body
    IN  IF str = "" THEN "." ELSE str

\* end index of the run of \w characters starting at i (i - 1 when empty)
RECURSIVE WordEnd(_, _)
WordEnd(s, i) ==
    IF i <= Len(s) /\ CharAt(s, i) \in WordChars THEN WordEnd(s, i + 1)
    ELSE i - 1

\* posixpath.expandvars from position i on; environ maps names to values or
\* Unset.  A substituted value is not expanded again.
RECURSIVE ExpandFrom(_, _, _)
ExpandFrom(s, i, environ) ==
    LET d == FindChar(s, "$", i)
    IN  IF d = 0 \/ d = Len(s) THEN s
        ELSE
          LET brace == CharAt(s, d + 1) = "{"
              close == IF brace THEN FindChar(s, "}", d + 2) ELSE 0
              wend  == WordEnd(s, d + 1)
              j     == IF brace THEN close ELSE wend
              name  == IF brace THEN SubSeq(s, d + 2, close - 1)
                       ELSE SubSeq(s, d + 1, wend)
              found == IF brace THEN close # 0 ELSE wend > d
          IN  IF ~found THEN ExpandFrom(s, d + 1, environ)
              ELSE IF name \notin DOMAIN environ \/ environ[name] = Unset
                   THEN ExpandFrom(s, j + 1, environ)
              ELSE LET head == SubSeq(s, 1, d - 1) \o environ[name]
                   IN  ExpandFrom(head \o SubSeq(s, j + 1, Len(s)),
                                  Len(head) + 1, environ)

ExpandVars(s, environ) == ExpandFrom(s, 1, environ)

\* the component loop of posixpath.normpath
RECURSIVE NormComps(_, _, _)
NormComps(comps, acc, rooted) ==
    IF comps = <<>> THEN acc
    ELSE LET c == comps[1]
         IN  IF c \in {"", "."} THEN NormComps(Tail(comps), acc, rooted)
             ELSE IF c # ".." \/ (~rooted /\ acc = <<>>)
                     \/ (acc # <<>> /\ acc[Len(acc)] = "..")
                  THEN NormComps(Tail(comps), Append(acc, c), rooted)
             ELSE IF acc # <<>>
                  THEN NormComps(Tail(comps), SubSeq(acc, 1, Len(acc) - 1), rooted)
             ELSE NormComps(Tail(comps), acc, rooted)

NormPath(s) ==
    IF s = "" THEN "."
    ELSE LET n       == LeadingSlashes(s)
             initial == IF n = 0 THEN "" ELSE IF n = 2 THEN "//" ELSE "/"
             p       == initial \o JoinSlash(NormComps(SplitSlash(s), <<>>, n > 0))
         IN  IF p = "" THEN "." ELSE p

(***************************************************************************)
(* utils/path.py                                                           *)
(***************************************************************************)
\* the separator is never put back
TrailingSeparator_Never(last) == FALSE

\* line 26: the last segment asks for a trailing separator
TrailingSeparator(last) ==
    (last # "/" /\ EndsWith(last, "/")) \/ EndsWith(last, "\\") \/ last = ""

\* posix_path(path, *paths) under the environment environ
posix_path(path, paths, environ) ==
    LET last   == IF paths # <<>> THEN paths[Len(paths)] ELSE path
        joined == IF paths # <<>> THEN AsPosix(OsPathJoin(path, paths)) ELSE path
        expd   == Replace(Strip(ExpandVars(joined, environ)), "\\", "/")
        norm   == NormPath(expd)
    IN  IF TrailingSeparator(last) THEN norm \o "/" ELSE norm

(***************************************************************************)
(* utils/env.py: os.environ and its backup env_original                    *)
(***************************************************************************)
\* env_set(key, val) on the pair <<environ, env_original>>
env_set(e, key, val) ==
    LET orig == IF e.env[key] # Unset /\ e.orig[key] = Unset
                THEN [e.orig EXCEPT ![key] = e.env[key]]
                ELSE IF e.env[key] = Unset
                THEN [e.orig EXCEPT ![key] = None]
                ELSE e.orig
    IN  [env |-> [e.env EXCEPT ![key] = val], orig |-> orig]

\* env_update(other): env_set for each pair, in the order of the dict
RECURSIVE env_update(_, _)
env_update(e, pairs) ==
    IF pairs = <<>> THEN e
    ELSE env_update(env_set(e, pairs[1][1], pairs[1][2]), Tail(pairs))

\* env_remove(key): back up a pre-existing value, drop the backup of an added one
env_remove(e, key) ==
    IF e.env[key] = Unset THEN e
    ELSE LET orig == IF e.orig[key] = Unset
                     THEN [e.orig EXCEPT ![key] = e.env[key]]
                     ELSE IF e.orig[key] = None
                     THEN [e.orig EXCEPT ![key] = Unset]
                     ELSE e.orig
         IN  [env |-> [e.env EXCEPT ![key] = Unset], orig |-> orig]

\* env_restore(key) with a key: restore one variable
env_restore_key(e, key) ==
    IF e.env[key] # Unset
    THEN IF e.env[key] = e.orig[key] THEN e
         ELSE IF e.orig[key] = None
         THEN [env |-> [e.env EXCEPT ![key] = Unset],
               orig |-> [e.orig EXCEPT ![key] = Unset]]
         ELSE IF e.orig[key] # Unset
         THEN [env |-> [e.env EXCEPT ![key] = e.orig[key]],
               orig |-> [e.orig EXCEPT ![key] = Unset]]
         ELSE e
    ELSE IF e.orig[key] # Unset
    THEN [env |-> [e.env EXCEPT ![key] = e.orig[key]],
          orig |-> [e.orig EXCEPT ![key] = Unset]]
    ELSE e

\* the first loop of env_restore(): variables whose backup is None are deleted
env_restore_added(e) ==
    LET added(k) == e.env[k] # Unset /\ e.orig[k] = None
    IN  [env |-> [k \in DOMAIN e.env |-> IF added(k) THEN Unset ELSE e.env[k]],
         orig |-> [k \in DOMAIN e.orig |-> IF added(k) THEN Unset ELSE e.orig[k]]]

\* os.environ.update(env_original) raises TypeError on a None value
env_restore_raises(e) ==
    \E k \in DOMAIN e.orig : env_restore_added(e).orig[k] = None

\* env_restore() without a key: delete what was added, put back the backups
\* and empty the backup
env_restore(e) ==
    LET a == env_restore_added(e)
    IN  IF env_restore_raises(e) THEN a
        ELSE [env |-> [k \in DOMAIN a.env |->
                          IF a.orig[k] # Unset THEN a.orig[k] ELSE a.env[k]],
              orig |-> [k \in DOMAIN a.orig |-> Unset]]

(***************************************************************************)
(* classes/job.py: Job.__init__                                            *)
(***************************************************************************)
\* dict.get(key, default); JSON booleans are kept as "true" and "false"
Get(v, default) == IF v = Unset THEN default ELSE v

\* the PrereqTask tuples of a job: tasks without a command are dropped
RECURSIVE PrereqTasks(_)
PrereqTasks(tasks) ==
    IF tasks = <<>> THEN <<>>
    ELSE (IF tasks[1].command = Unset THEN <<>>
          ELSE <<[name     |-> tasks[1].name,
                  command  |-> tasks[1].command,
                  required |-> Get(tasks[1].required, "false") = "true"]>>)
         \o PrereqTasks(Tail(tasks))

\* the OnSuccessTask tuples of a job: they have no field 'required'
RECURSIVE OnSuccessTasks(_)
OnSuccessTasks(tasks) ==
    IF tasks = <<>> THEN <<>>
    ELSE (IF tasks[1].command = Unset THEN <<>>
          ELSE <<[name |-> tasks[1].name, command |-> tasks[1].command]>>)
         \o OnSuccessTasks(Tail(tasks))

\* Job(job): the attributes set by the constructor from the JSON dict;
\* environ is os.environ at load time
Job(job, environ) ==
    [name              |-> Strip(Get(job.name, "")),
     command           |-> job.command,
     enabled           |-> Get(job.enabled, "false") = "true",
     user              |-> Strip(Get(job.user, "")),
     mode              |-> IF job.mode \in {Unset, None, ""} THEN "push"
                           ELSE job.mode,
     source            |-> Strip(Get(job.source, "")),
     destination       |-> Strip(Get(job.destination, "")),
     trunk             |-> IF job.trunk = Unset THEN None ELSE Strip(job.trunk),
     sourceRemote      |-> IF job.sourceRemote = Unset THEN None
                           ELSE Strip(job.sourceRemote),
     destinationRemote |-> IF job.destinationRemote = Unset THEN None
                           ELSE Strip(job.destinationRemote),
     includeFrom       |-> IF job.includeFrom = Unset THEN None
                           ELSE posix_path(job.includeFrom, <<>>, environ),
     excludeFrom       |-> IF job.excludeFrom = Unset THEN None
                           ELSE posix_path(job.excludeFrom, <<>>, environ),
     filterFrom        |-> IF job.filterFrom = Unset THEN None
                           ELSE posix_path(job.filterFrom, <<>>, environ),
     resyncMode        |-> Strip(Get(job.resyncMode, "newer")),
     prereq            |-> PrereqTasks(job.prereq),
     onSuccess         |-> OnSuccessTasks(job.onSuccess)]

(***************************************************************************)
(* classes/job.py: Job.prepare                                             *)
(***************************************************************************)
\* re.match("^(.*[\\/])?(<name>)(.exe)?$", command) for a name in names
MatchesTool(command, names) ==
    \E n \in names : \E k \in {Len(n), Len(n) + 4} :
        /\ Len(command) >= k
        /\ LET head == SubSeq(command, 1, Len(command) - k)
               tail == SubSeq(command, Len(command) - k + 1, Len(command))
           IN  /\ StartsWith(tail, n)
               /\ k = Len(n) \/ EndsWith(tail, "exe")
               /\ head = "" \/ CharAt(head, Len(head)) \in {"/", "\\"}

sshLike(command)  == MatchesTool(command, {"rsync", "cwrsync", "scp", "sftp", "ssh"})
isRclone(command) == MatchesTool(command, {"rclone"})
isRsync(command)  == MatchesTool(command, {"rsync", "cwrsync"})

\* a Python value is truthy: not None and not the empty string
Truthy(v) == v \notin {None, Unset, "", False}

\* [posix_path(arg) for arg in commandArgs]
RECURSIVE PosixEach(_, _)
PosixEach(items, environ) ==
    IF items = <<>> THEN <<>>
    ELSE <<posix_path(items[1], <<>>, environ)>> \o PosixEach(Tail(items), environ)

\* the filter files as independent ifs: every one that is set is applied
FilterFlags_All(job, command, subcommand, environ) ==
    (IF Truthy(job.filterFrom) /\ isRclone(command)
     THEN <<IF subcommand = "bisync" THEN "--filters-file" ELSE "--filter-from",
            posix_path(job.filterFrom, <<>>, environ)>>
     ELSE <<>>)
    \o (IF Truthy(job.excludeFrom)
        THEN <<"--exclude-from", posix_path(job.excludeFrom, <<>>, environ)>>
        ELSE <<>>)
    \o (IF Truthy(job.includeFrom)
        THEN <<"--include-from", posix_path(job.includeFrom, <<>>, environ)>>
        ELSE <<>>)

\* lines 137-145: the filter file of the job: filterFrom, else excludeFrom,
\* else includeFrom
FilterFlags(job, command, subcommand, environ) ==
    IF Truthy(job.filterFrom)
    THEN (IF isRclone(command) /\ subcommand = "bisync"
          THEN <<"--filters-file", posix_path(job.filterFrom, <<>>, environ)>>
          ELSE IF isRclone(command)
          THEN <<"--filter-from", posix_path(job.filterFrom, <<>>, environ)>>
          ELSE <<>>)
    ELSE IF Truthy(job.excludeFrom)
    THEN <<"--exclude-from", posix_path(job.excludeFrom, <<>>, environ)>>
    ELSE IF Truthy(job.includeFrom)
    THEN <<"--include-from", posix_path(job.includeFrom, <<>>, environ)>>
    ELSE <<>>

\* lines 128-153: the flags chosen from the tool dialect and the Config
ToolFlags(job, config, command, subcommand, environ) ==
    IF isRclone(command) \/ isRsync(command)
    THEN <<IF ~config.quiet THEN (IF config.verbose THEN "-vv" ELSE "-v")
           ELSE "-q">>
         \o (IF config.dryRun THEN <<"--dry-run">> ELSE <<>>)
         \o (IF Truthy(config.logFile) THEN <<"--log-file", config.logFile>>
             ELSE <<>>)
         \o FilterFlags(job, command, subcommand, environ)
         \o (IF isRclone(command) /\ subcommand = "bisync" /\ config.resync
             THEN <<"--resync-mode", job.resyncMode>> ELSE <<>>)
    ELSE IF sshLike(command)
    THEN (IF config.verbose THEN <<"-v">>
          ELSE IF config.quiet THEN <<"-q">> ELSE <<>>)
    ELSE <<>>

\* line 156: the user of the job
JobUser(job, config) ==
    IF Truthy(job.command.user) THEN job.command.user
    ELSE IF Truthy(job.user) THEN job.user
    ELSE config.user

\* lines 157-163: remote and remotePath
JobRemote(job, config) ==
    IF config.type = "host" /\ sshLike(Strip(Get(job.command.exec, "")))
       /\ ~Contains(config.remote, "@")
    THEN JobUser(job, config) \o "@" \o config.remote
    ELSE config.remote

JobRemotePath(job, config) ==
    LET base == IF config.remote # "" /\ config.type # "local"
                THEN config.remote \o ":" \o config.root
                ELSE config.root
    IN  IF config.type = "host" /\ sshLike(Strip(Get(job.command.exec, "")))
           /\ ~Contains(config.remote, "@")
        THEN JobUser(job, config) \o "@" \o base
        ELSE base

\* lines 111-153: the executable, the rclone subcommand and the flags
CommandHead(job, config, environ) ==
    <<Strip(Get(job.command.exec, ""))>>
    \o (IF isRclone(Strip(Get(job.command.exec, "")))
        THEN <<IF Strip(Get(job.command.subcommand, "")) # ""
               THEN Strip(Get(job.command.subcommand, "")) ELSE "check">>
        ELSE <<>>)
    \o ToolFlags(job, config, Strip(Get(job.command.exec, "")),
                 Strip(Get(job.command.subcommand, "")), environ)

\* lines 166-171: user, root, remote and remotePath are published
PublishVars(job, config, e) ==
    env_update(e, << <<"user", JobUser(job, config)>>,
                     <<"root", config.root>>,
                     <<"remote", JobRemote(job, config)>>,
                     <<"remotePath", JobRemotePath(job, config)>> >>)

\* lines 174-175: the trunk of the job, else of the Config
ResolveTrunk(job, config, environ) ==
    IF job.trunk # None THEN posix_path(job.trunk, <<>>, environ)
    ELSE posix_path(config.trunk, <<>>, environ)

\* the remote-relative attribute is looked at first
ResolveEnd_PrefersRelative(direct, relative, remotePath, trunk, environ) ==
    IF relative # None
    THEN posix_path(remotePath, <<trunk, relative>>, environ)
    ELSE IF direct # "" THEN posix_path(direct, <<>>, environ)
    ELSE ""

\* lines 186-200: src from source / sourceRemote, dest from destination /
\* destinationRemote
ResolveEnd(direct, relative, remotePath, trunk, environ) ==
    IF direct # "" THEN posix_path(direct, <<>>, environ)
    ELSE IF relative # None
    THEN posix_path(remotePath, <<trunk, relative>>, environ)
    ELSE ""

\* lines 182, 204-218: the remaining args, the safety check and the result:
\* the exception raised ("" when none), the command line, src, dest and the
\* environment left behind
BuildCommandLine(job, config, head, src, dest, e2) ==
    IF job.command.args.kind = "str"
    THEN [exc |-> "TypeError", commandline |-> <<>>, src |-> "", dest |-> "",
          e |-> e2]
    ELSE IF dest = "." /\ ~config.force
    THEN [exc |-> "UnsafeError", commandline |-> <<>>, src |-> src,
          dest |-> dest, e |-> e2]
    ELSE [exc |-> "", e |-> e2, src |-> src, dest |-> dest,
          commandline |-> head
                          \o PosixEach(job.command.args.items, e2.env)
                          \o (IF src # "" THEN <<src>> ELSE <<>>)
                          \o (IF dest # "" THEN <<dest>> ELSE <<>>)]

\* lines 177-200: trunk is published, src and dest are resolved
prepareWithTrunk(job, config, head, remotePath, trunk, e2) ==
    BuildCommandLine(job, config, head,
        ResolveEnd(job.source, job.sourceRemote, remotePath, trunk, e2.env),
        ResolveEnd(job.destination, job.destinationRemote, remotePath, trunk,
                   e2.env),
        e2)

\* lines 173-179: trunk is resolved under the published variables
prepareWithVars(job, config, head, e1, trunk) ==
    prepareWithTrunk(job, config, head, JobRemotePath(job, config), trunk,
                     env_update(e1, << <<"trunk", trunk>> >>))

prepareWithEnv(job, config, head, e1) ==
    prepareWithVars(job, config, head, e1, ResolveTrunk(job, config, e1.env))

\* Job.prepare(config) on the environment e = [env, orig]
prepare(job, config, e) ==
    prepareWithEnv(job, config, CommandHead(job, config, e.env),
                   PublishVars(job, config, e))

(***************************************************************************)
(* classes/group.py                                                        *)
(***************************************************************************)
RECURSIVE Jobs(_, _)
Jobs(rawJobs, environ) ==
    IF rawJobs = <<>> THEN <<>>
    ELSE <<Job(rawJobs[1], environ) @@ [commandline |-> <<>>]>>
         \o Jobs(Tail(rawJobs), environ)

\* Group(group): name, skipOnFail and the Job objects
Group(group, environ) ==
    [name       |-> IF group.name = Unset THEN "" ELSE Strip(group.name),
     skipOnFail |-> Get(group.skipOnFail, "false") = "true",
     jobs       |-> Jobs(group.jobs, environ)]

\* list membership
InList(x, list) == \E i \in 1..Len(list) : list[i] = x

\* filter_groups with the exclude list applied on top of the include list
filter_groups_BothLists(gs, included, excluded) ==
    LET Keep(i) == /\ included = <<>> \/ InList(gs[i].name, included)
                   /\ ~InList(gs[i].name, excluded)
        F[i \in 0..Len(gs)] ==
            IF i = 0 THEN <<>>
            ELSE IF Keep(i) THEN Append(F[i - 1], i) ELSE F[i - 1]
    IN  F[Len(gs)]

\* Group.filter_groups: the positions of the groups it yields, in order
filter_groups(gs, included, excluded) ==
    LET Keep(i) == IF included # <<>> THEN InList(gs[i].name, included)
                   ELSE IF excluded # <<>> THEN ~InList(gs[i].name, excluded)
                   ELSE TRUE
        F[i \in 0..Len(gs)] ==
            IF i = 0 THEN <<>>
            ELSE IF Keep(i) THEN Append(F[i - 1], i) ELSE F[i - 1]
    IN  F[Len(gs)]

\* filter_jobs with the test of line 306 alone: under 'push' the mode of the
\* job is not looked at
filter_jobs_PushPassesAll(js, backupMode, enabledOnly) ==
    LET Keep(i) == /\ backupMode \in {"any", "push"} \/ backupMode = js[i].mode
                   /\ ~enabledOnly \/ js[i].enabled
        F[i \in 0..Len(js)] ==
            IF i = 0 THEN <<>>
            ELSE IF Keep(i) THEN Append(F[i - 1], i) ELSE F[i - 1]
    IN  F[Len(js)]

\* Job.filter_jobs: the positions of the jobs it yields, in order (a Job
\* object always has the attribute 'mode')
filter_jobs(js, backupMode, enabledOnly) ==
    LET Keep(i) == /\ backupMode = "any" \/ backupMode = js[i].mode
                   /\ ~enabledOnly \/ js[i].enabled
        F[i \in 0..Len(js)] ==
            IF i = 0 THEN <<>>
            ELSE IF Keep(i) THEN Append(F[i - 1], i) ELSE F[i - 1]
    IN  F[Len(js)]

(***************************************************************************)
(* classes/job.py: Job.runTask and Job.runJob                              *)
(***************************************************************************)
\* sub in s, for strings
HasSubstring(s, sub) ==
    \E i \in 1..(Len(s) - Len(sub) + 1) : SubSeq(s, i, i + Len(sub) - 1) = sub

\* runTask without line 284: 'required' is not looked at
runTask_IgnoresRequired(task, code) == TRUE

\* the value runTask returns for a task whose subprocess exited with code
runTask(task, code) ==
    ~(code # 0 /\ "required" \in DOMAIN task /\ task.required)

\* re.match("rclone(.exe)?$", self.command['exec']) : anchored at the start
runJobIsRclone(exec) ==
    \/ exec = "rclone"
    \/ Len(exec) = 10 /\ StartsWith(exec, "rclone") /\ EndsWith(exec, "exe")

\* what runJob does with the exit code of the main command: the exception it
\* raises, or "True" when it returns
runJob(job, code) ==
    IF code # 0
    THEN IF job.command.exec = Unset THEN "KeyError"
         ELSE IF runJobIsRclone(job.command.exec) /\ code = 9
         THEN (IF job.command.args.kind = "absent" THEN "KeyError"
               ELSE IF \/ /\ job.command.args.kind = "list"
                          /\ InList("--error-on-no-transfer",
                                    job.command.args.items)
                       \/ /\ job.command.args.kind = "str"
                          /\ HasSubstring(job.command.args.text,
                                          "--error-on-no-transfer")
               THEN "JobSuccess"
               ELSE "True")
         ELSE "JobError"
    ELSE "JobSuccess"

\* the exceptions of this program (RBackupError and its subclasses)
RBackupErrors == {"RBackupError", "BadConfigError", "UnsafeError", "JobError",
                  "JobSuccess"}

(***************************************************************************)
(* Bounds and inputs                                                       *)
(***************************************************************************)
\* most prereq tasks, and most onSuccess tasks, of a job
MaxTasks == 2

\* most jobs of the first group of a multi-group configuration
MaxJobs == 3

\* exit codes a subprocess may return: success, a failure, rclone's
\* "nothing transferred"
ExitCodes == {0, 1, 9}

\* utils/mail.py lines 81-89: the settings get_mail_config requires, read from
\* the environment when there is no MAIL_CONFIG file
MailKeys == {"MAIL_USER", "MAIL_PASS", "MAIL_SERVER"}

\* os.environ when run_backups starts: main() has set machineName
EnvKeys == {"user", "root", "remote", "remotePath", "trunk", "HOME",
            "machineName"} \cup MailKeys

InitEnv ==
    [k \in EnvKeys |-> IF k = "HOME" THEN "/home/al"
                       ELSE IF k = "machineName" THEN "pc" ELSE Unset]

InitEnvOriginal ==
    [k \in EnvKeys |-> IF k = "machineName" THEN None ELSE Unset]

NoArgs == [kind |-> "absent", items |-> <<>>, text |-> ""]
ListArgs(items) == [kind |-> "list", items |-> items, text |-> ""]
StrArgs(text) == [kind |-> "str", items |-> <<>>, text |-> text]

DefCommand ==
    [exec |-> "rsync", subcommand |-> Unset, args |-> NoArgs, user |-> Unset]

\* a job dict of the config file with only what an rsync push needs
DefJob ==
    [name |-> "job", command |-> DefCommand, enabled |-> "true", user |-> Unset,
     mode |-> Unset, source |-> "src/", destination |-> Unset, trunk |-> Unset,
     sourceRemote |-> Unset, destinationRemote |-> "data", includeFrom |-> Unset,
     excludeFrom |-> Unset, filterFrom |-> Unset, resyncMode |-> Unset,
     prereq |-> <<>>, onSuccess |-> <<>>]

\* a Config as parseConfig returns it for a host backup without options
DefConfig ==
    [name |-> "rbackup", user |-> "al", type |-> "host", remote |-> "box",
     root |-> "bk", trunk |-> "", logFile |-> None, mode |-> "push",
     includeGroups |-> <<>>, excludeGroups |-> <<>>, mailTo |-> <<>>,
     verbose |-> FALSE, quiet |-> FALSE, interactive |-> FALSE,
     dryRun |-> FALSE, resync |-> FALSE, force |-> FALSE]

OneGroup(job) == <<[name |-> "g1", skipOnFail |-> Unset, jobs |-> <<job>>]>>

\* sequences over S of length 0..n
SeqUpTo(S, n) == UNION {[1..k -> S] : k \in 0..n}

PrereqInputs ==
    {[name |-> "pre", command |-> <<"mount", "$remote">>, required |-> r] :
        r \in {"true", "false", Unset}}

OnSuccessInputs ==
    {[name |-> "post", command |-> <<"umount", "/mnt/$trunk">>]}

\* the executor, its task lists: prerequisite and postrun tasks around the
\* main command
TaskScenarios ==
    {[config |-> DefConfig,
      groups |-> OneGroup([DefJob EXCEPT !.command.exec = x,
                                         !.command.subcommand = "sync",
                                         !.command.args = a,
                                         !.prereq = pre, !.onSuccess = post])] :
        x \in {"rclone", "rsync"},
        a \in {NoArgs, ListArgs(<<"--error-on-no-transfer">>)},
        pre \in SeqUpTo(PrereqInputs, MaxTasks),
        post \in SeqUpTo(OnSuccessInputs, MaxTasks)}

\* the executor, its main command: tool and args, with and without the prompt
ExecutorScenarios ==
    TaskScenarios
    \cup {[config |-> [DefConfig EXCEPT !.interactive = i],
           groups |-> OneGroup([DefJob EXCEPT !.command.exec = x,
                                              !.command.subcommand = "sync",
                                              !.command.args = a,
                                              !.onSuccess = post])] :
        i \in BOOLEAN,
        x \in {"rclone", "rsync", "/usr/bin/rclone"},
        a \in {NoArgs, ListArgs(<<>>), ListArgs(<<"--error-on-no-transfer">>),
               ListArgs(<<"-a", "--error-on-no-transfer">>)},
        post \in SeqUpTo(OnSuccessInputs, 1)}

\* the flags: tool dialect, verbosity and filters
FlagScenarios ==
    {[config |-> [DefConfig EXCEPT !.verbose = v, !.quiet = q, !.dryRun = d,
                                   !.resync = d,
                                   !.logFile = IF d THEN "/var/log/rb.log"
                                               ELSE None],
      groups |-> OneGroup([DefJob EXCEPT !.command.exec = x,
                                         !.command.subcommand = sub,
                                         !.filterFrom = f[1],
                                         !.excludeFrom = f[2],
                                         !.includeFrom = f[3]])] :
        v \in BOOLEAN, q \in BOOLEAN, d \in BOOLEAN,
        x \in {"rclone", "rsync", "scp", "tar"},
        sub \in {Unset, "sync", "bisync"},
        f \in {Unset, "flt"} \X {Unset, "$HOME/exc"} \X {Unset, "inc"}}

\* source and destination: absolute and remote-relative, safe and unsafe
PathScenarios ==
    {[config |-> [DefConfig EXCEPT !.type = t[1], !.remote = t[2], !.root = r,
                                   !.trunk = tr, !.force = f],
      groups |-> OneGroup([DefJob EXCEPT !.source = sd[1],
                                         !.sourceRemote = sd[2],
                                         !.destination = sd[3],
                                         !.destinationRemote = sd[4]])] :
        t \in {<<"local", "">>, <<"host", "box">>},
        r \in {"", "bk"}, tr \in {"", "pc"}, f \in BOOLEAN,
        sd \in {Unset, "", "src/"} \X {Unset, "", "data"}
               \X {Unset, ".", "./", "/dst", "$trunk"}
               \X {Unset, "", "data", "."}}

\* the remote path: backup type, remote, root, trunk and the three users
RemoteScenarios ==
    {[config |-> [DefConfig EXCEPT !.type = t, !.remote = rm, !.root = r,
                                   !.trunk = tr],
      groups |-> OneGroup([DefJob EXCEPT !.command.exec = x,
                                         !.command.user = u[1],
                                         !.user = u[2], !.trunk = jt,
                                         !.source = Unset,
                                         !.sourceRemote = sr])] :
        t \in {"local", "cloud", "host"}, rm \in {"", "box", "x@box"},
        r \in {"", "bk", "/srv/"}, tr \in {"", "pc", "/abs"},
        x \in {"rsync", "scp", "rclone"},
        u \in {Unset, "cu"} \X {Unset, " jo "},
        jt \in {Unset, "t/$user"}, sr \in {Unset, ""}}

\* the jobs of a multi-group run: one that can run, one whose destination
\* is the current directory, one that is disabled, one whose args is a string
OrchestratorJobs ==
    {[DefJob EXCEPT !.name = "ok"],
     [DefJob EXCEPT !.name = "cwd", !.destination = "."],
     [DefJob EXCEPT !.name = "off", !.enabled = "false"],
     [DefJob EXCEPT !.name = "str", !.command.args = StrArgs("-a -z")]}

OrchestratorScenarios ==
    {[config |-> DefConfig,
      groups |-> <<[name |-> "g1", skipOnFail |-> s1, jobs |-> js],
                   [name |-> "g2", skipOnFail |-> Unset, jobs |-> <<j2>>]>>] :
        s1 \in {"true", "false"},
        js \in SeqUpTo(OrchestratorJobs, MaxJobs),
        j2 \in {[DefJob EXCEPT !.name = "ok"],
                [DefJob EXCEPT !.name = "cwd", !.destination = "."]}}

\* runs with and without a log file and recipients: jobs that succeed, fail
\* and raise an unexpected error
MailScenarios ==
    {[config |-> [DefConfig EXCEPT !.logFile = l, !.mailTo = m],
      groups |-> <<[name |-> "g1", skipOnFail |-> Unset, jobs |-> js]>>] :
        l \in {None, False, "log.txt"},
        m \in {<<>>, <<"al@example.org">>},
        js \in SeqUpTo({[DefJob EXCEPT !.name = "ok"],
                        [DefJob EXCEPT !.name = "cwd", !.destination = "."],
                        [DefJob EXCEPT !.name = "str",
                                       !.command.args = StrArgs("")]}, 2)}

\* interactive runs of two jobs in a group followed by another group
PromptScenarios ==
    {[config |-> [DefConfig EXCEPT !.interactive = TRUE],
      groups |-> <<[name |-> "g1", skipOnFail |-> s1,
                    jobs |-> <<[DefJob EXCEPT !.name = "first",
                                              !.enabled = e1],
                               [DefJob EXCEPT !.name = "second",
                                              !.destination = d2]>>],
                   [name |-> "g2", skipOnFail |-> Unset,
                    jobs |-> <<[DefJob EXCEPT !.name = "ok"]>>]>>] :
        s1 \in {"true", "false"}, e1 \in {"true", "false"},
        d2 \in {Unset, "."}}

Scenarios ==
    ExecutorScenarios \cup FlagScenarios \cup PathScenarios
    \cup RemoteScenarios \cup OrchestratorScenarios \cup MailScenarios
    \cup PromptScenarios

\* the mail settings of the environment: complete, absent, incomplete
MailEnvs(environ) ==
    {[k \in EnvKeys |-> IF k \in present THEN "set" ELSE environ[k]] :
        present \in {MailKeys, {}, {"MAIL_USER"}}}

\* utils/mail.py lines 87-89: the assertion of get_mail_config holds
MailConfigured(environ) == \A k \in MailKeys : Truthy(environ[k])

\* the Namespace of a command line without options
DefArgs ==
    [localBackupRoot |-> Unset, remote |-> Unset, trunk |-> Unset,
     logFile |-> None, mode |-> "push", includeGroups |-> <<>>,
     excludeGroups |-> <<>>, mailTo |-> <<>>, verbose |-> FALSE,
     quiet |-> FALSE, interactive |-> FALSE, dryRun |-> FALSE,
     resync |-> FALSE, force |-> FALSE]

\* a config file with one group of one job and nothing else
DefFile ==
    [name |-> "rbackup", type |-> Unset, remote |-> Unset, user |-> Unset,
     root |-> Unset, trunk |-> Unset, logFile |-> Unset,
     groups |-> OneGroup([DefJob EXCEPT !.name = "ok"])]

DefSetup == [found |-> TRUE, isdir |-> TRUE, file |-> DefFile, args |-> DefArgs]

\* declared and undeclared types with the remotes, users and roots of the file
\* and of the command line
TypeInputs ==
    {[DefSetup EXCEPT !.file.type = t, !.file.remote = rm, !.file.user = u,
                      !.file.root = r, !.args.localBackupRoot = o[1],
                      !.args.remote = o[2]] :
        t \in {Unset, "host", "Cloud", "LOCAL", "ftp", "", None},
        rm \in {Unset, "", "box", "al@box:/srv", "@box"},
        u \in {Unset, "", "bob"},
        r \in {Unset, "$HOME/bk"},
        o \in {<<Unset, Unset>>, <<"/mnt", Unset>>, <<Unset, "srv">>,
               <<Unset, "eve@srv:/b">>, <<Unset, "">>}}

\* local roots that exist or not, with and without --force
LocalInputs ==
    {[DefSetup EXCEPT !.file.type = t, !.file.root = r,
                      !.args.localBackupRoot = o, !.args.force = f,
                      !.isdir = d] :
        t \in {Unset, "local"}, r \in {Unset, "/data"}, o \in {Unset, "/mnt"},
        f \in BOOLEAN, d \in BOOLEAN}

\* the log file and the recipients, the trunk
OptionInputs ==
    {[DefSetup EXCEPT !.file.type = t, !.file.remote = "box",
                      !.file.logFile = fl, !.file.trunk = ft,
                      !.args.logFile = al, !.args.mailTo = m,
                      !.args.trunk = at] :
        t \in {"host", "cloud"}, fl \in {Unset, "f.log"}, ft \in {Unset, "ft"},
        al \in {None, False, "$HOME/rb.log"},
        m \in {<<>>, <<"al@example.org">>}, at \in {Unset, "t"}}

\* config files of two groups: named, named alike, blank and without a name
GroupNameInputs ==
    {[DefSetup EXCEPT !.file.groups =
         <<[name |-> n1, skipOnFail |-> Unset,
            jobs |-> <<[DefJob EXCEPT !.name = "ok"]>>],
           [name |-> n2, skipOnFail |-> Unset, jobs |-> <<>>]>>] :
        n1 \in {"a", "b"}, n2 \in {"a", " a ", "  ", Unset}}

SetupInputs ==
    TypeInputs \cup LocalInputs \cup OptionInputs \cup GroupNameInputs
    \cup {[DefSetup EXCEPT !.found = FALSE]}

RECURSIVE Groups(_, _)
Groups(rawGroups, environ) ==
    IF rawGroups = <<>> THEN <<>>
    ELSE <<Group(rawGroups[1], environ)>> \o Groups(Tail(rawGroups), environ)

(***************************************************************************)
(* classes/config.py: Config.get, setupFileLogging, parseConfig             *)
(***************************************************************************)
UpperCase == "ABCDEFGHIJKLMNOPQRSTUVWXYZ"
LowerCase == "abcdefghijklmnopqrstuvwxyz"

\* str.lower()
RECURSIVE Lower(_)
Lower(s) ==
    IF s = "" THEN ""
    ELSE LET c == CharAt(s, 1)
             k == FindChar(UpperCase, c, 1)
         IN  (IF k = 0 THEN c ELSE CharAt(LowerCase, k))
             \o Lower(SubSeq(s, 2, Len(s)))

\* lines 153-156 and 172-175: [user@]remote[:root] split at the first '@' and
\* then at the first ':'; user and root keep their value when the part is
\* missing
SplitRemote(remote, user, root) ==
    LET at == FindChar(remote, "@", 1)
        rest == IF at # 0 THEN SubSeq(remote, at + 1, Len(remote)) ELSE remote
        colon == FindChar(rest, ":", 1)
    IN  [user |-> IF at # 0 THEN SubSeq(remote, 1, at - 1) ELSE user,
         remote |-> IF colon # 0 THEN SubSeq(rest, 1, colon - 1) ELSE rest,
         root |-> IF colon # 0 THEN SubSeq(rest, colon + 1, Len(rest))
                  ELSE root]

\* lines 149-183: config['remote'], config['user'] and config['root'] after
\* the remote of the file is split and the command line has overridden them
RemoteUserRoot(file, args) ==
    LET fromFile == SplitRemote(Get(file.remote, ""), "", "")
        user1 == IF fromFile.user # "" /\ ~Truthy(file.user)
                 THEN fromFile.user ELSE file.user
        root1 == IF fromFile.root # "" /\ ~Truthy(file.root)
                 THEN fromFile.root ELSE file.root
        fromArgs == SplitRemote(args.remote, fromFile.user, fromFile.root)
    IN  IF args.localBackupRoot # Unset
        THEN [remote |-> fromFile.remote, user |-> user1,
              root |-> args.localBackupRoot]
        ELSE IF args.remote # Unset
        THEN [remote |-> fromArgs.remote,
              user |-> IF fromArgs.user # "" THEN fromArgs.user ELSE user1,
              root |-> IF fromArgs.root # "" THEN fromArgs.root ELSE root1]
        ELSE [remote |-> fromFile.remote, user |-> user1, root |-> root1]

\* lines 189-200: the type of a config file that declares none
InferType_CloudFirst(remote, user) ==
    IF Truthy(remote) THEN "cloud"
    ELSE IF Truthy(remote) /\ Truthy(user) THEN "host"
    ELSE "local"

InferType(remote, user) ==
    IF Truthy(remote) /\ Truthy(user) THEN "host"
    ELSE IF Truthy(remote) THEN "cloud"
    ELSE "local"

ConfigTypes == {"local", "cloud", "host"}

\* lines 208-215: the trunk defaults to the host name for local and cloud
Trunk(file, args, type, environ) ==
    IF args.trunk = Unset /\ file.trunk = Unset
    THEN (IF type \in {"local", "cloud"} THEN environ["machineName"] ELSE "")
    ELSE IF args.trunk # Unset THEN args.trunk
    ELSE file.trunk

\* setupFileLogging: the log file of the command line, else that of the config
\* file, else the default one when the log is to be mailed
DefaultLog == "/home/al/.local/state/rbackup.log"

setupFileLogging(file, args, environ) ==
    LET logFile == IF Truthy(args.logFile)
                   THEN posix_path(args.logFile, <<>>, environ)
                   ELSE IF Truthy(file.logFile)
                   THEN posix_path(file.logFile, <<>>, environ)
                   ELSE None
    IN  IF args.mailTo # <<>> /\ ~Truthy(logFile) THEN DefaultLog ELSE logFile

\* parseConfig(config, args), args.logFile being what Config.get has left in
\* it: the exception raised ("" when none) and the Config returned.  isdir
\* tells whether the root directory exists, login is getpass.getuser()
parseConfig(file, args, logFile, isdir, login, environ) ==
    LET r == RemoteUserRoot(file, args)
        root == IF r.root # Unset THEN posix_path(r.root, <<>>, environ) ELSE ""
        declared == IF file.type = Unset THEN InferType(r.remote, r.user)
                    ELSE file.type
        type == Lower(declared)
    IN  IF type \notin ConfigTypes
        THEN [exc |-> "BadConfigError", config |-> None]
        ELSE IF type = "local" /\ root # "" /\ ~isdir /\ ~args.force
        THEN [exc |-> "UnsafeError", config |-> None]
        ELSE [exc |-> "",
              config |->
                [name |-> file.name,
                 user |-> IF Truthy(r.user) THEN r.user ELSE login,
                 type |-> type,
                 remote |-> r.remote,
                 root |-> root,
                 trunk |-> Trunk(file, args, type, environ),
                 logFile |-> logFile,
                 mode |-> args.mode,
                 includeGroups |-> args.includeGroups,
                 excludeGroups |-> args.excludeGroups,
                 mailTo |-> args.mailTo,
                 verbose |-> args.verbose,
                 quiet |-> args.quiet,
                 interactive |-> args.interactive,
                 dryRun |-> args.dryRun,
                 resync |-> args.resync,
                 force |-> args.force]]

\* Config.get(args): openConfig, setupFileLogging unless the command line has
\* disabled the log file, then parseConfig
ConfigGet(in, environ) ==
    IF ~in.found THEN [exc |-> "FileNotFoundError", config |-> None]
    ELSE parseConfig(in.file, in.args,
                     IF in.args.logFile = False THEN False
                     ELSE setupFileLogging(in.file, in.args, environ),
                     in.isdir, "al", environ)

(***************************************************************************)
(* main.py: run_backups                                                    *)
(***************************************************************************)
VARIABLES
    config,        \* the Config object
    groups,        \* config.groups: Group objects with their Job objects
    env,           \* os.environ
    env_original,  \* utils/env.py: the backup of the variables written
    pc,            \* where run_backups is
    rgroups,       \* run_backups: groups (positions of the filtered groups)
    gi,            \* position in rgroups of the group being processed
    jobs,          \* run_backups: jobs (positions of the filtered jobs)
    ji,            \* position in jobs of the job being processed
    ti,            \* Job.execute: position of the task being run
    errors,        \* run_backups: errors
    aborted,       \* run_backups: aborted
    prepared,      \* the calls of Job.prepare so far: exception, src, dest
    procs,         \* the calls of subprocess.run so far, with their outcome
    mails,         \* the calls of send_mail so far
    rc,            \* main.py: rc, the exit status of the process
    arg,           \* the input of the call under study
    ret            \* what the call under study returned

vars == <<arg, ret, rc, config, groups, env, env_original, pc, rgroups, gi,
          jobs, ji, ti, errors, aborted, prepared, procs, mails>>

\* a summary mail whatever the log file and the recipients are
SummaryWanted_Always(cfg) == TRUE

\* main.py line 87: a log file and recipients are configured
SummaryWanted(cfg) == Truthy(cfg.logFile) /\ cfg.mailTo # <<>>

\* main.py lines 265-266: main() returned
MainReturns ==
    /\ pc' = "done"
    /\ rc' = 0

\* main() raising as if it had returned
MainRaises_AsReturn ==
    /\ pc' = "raised"
    /\ rc' = 0

\* main.py lines 267-269: main() raised an Exception: it is logged, rc is
\* what line 263 set
MainRaises ==
    /\ pc' = "raised"
    /\ rc' = rc

\* main.py lines 246-259: Config.get returns the Config and run_backups
\* starts, or raises: an RBackupError is logged and main() returns, another
\* exception is raised again
GetConfig ==
    /\ pc = "setup"
    /\ LET got == ConfigGet(arg, env)
       IN  /\ ret' = <<got.exc>>
           /\ IF got.exc = ""
              THEN /\ config' = got.config
                   /\ groups' = Groups(arg.file.groups, env)
                   /\ pc' = "start"
                   /\ rc' = rc
              ELSE /\ IF got.exc \in RBackupErrors THEN MainReturns
                      ELSE MainRaises
                   /\ UNCHANGED <<config, groups>>
    /\ UNCHANGED <<arg, env, env_original, rgroups, gi, jobs, ji, ti, errors,
                   aborted, prepared, procs, mails>>

\* main() has loaded the configuration of a scenario and calls run_backups
Loaded ==
    \E sc \in Scenarios :
        /\ config = sc.config
        /\ groups = Groups(sc.groups, InitEnv)
        /\ env \in IF sc.config.mailTo # <<>> THEN MailEnvs(InitEnv)
                   ELSE {InitEnv}
        /\ pc = "start"
        /\ arg = <<>>

\* main() is about to call Config.get on a config file and a command line
Launched ==
    \E in \in SetupInputs :
        /\ config = DefConfig
        /\ groups = <<>>
        /\ env \in IF in.args.mailTo # <<>> THEN MailEnvs(InitEnv)
                   ELSE {InitEnv}
        /\ pc = "setup"
        /\ arg = in

Init ==
        /\ Loaded \/ Launched
        /\ env_original = InitEnvOriginal
        /\ rgroups = <<>>
        /\ gi = 0
        /\ jobs = <<>>
        /\ ji = 0
        /\ ti = 0
        /\ errors = <<>>
        /\ aborted = FALSE
        /\ prepared = <<>>
        /\ procs = <<>>
        /\ mails = <<>>
        /\ rc = 1
        /\ ret = <<>>

\* the group and the job the loops of run_backups are at
CurG == rgroups[gi]
CurJ == jobs[ji]
CurGroup == groups[CurG]
CurJob == groups[CurG].jobs[CurJ]

\* an exception object: its class, its message and its exit code (0: none)
Error(type, message, exitcode) ==
    [type |-> type, message |-> message, exitcode |-> exitcode,
     group |-> CurG, job |-> CurJ]

\* except RBackupError without lines 73-76: skipOnFail is not looked at
ExceptRBackupError_NoSkip(err) ==
    /\ errors' = Append(errors, err)
    /\ aborted' = aborted
    /\ ti' = 0
    /\ pc' = "job"
    /\ gi' = gi
    /\ ji' = ji + 1

\* lines 70-76: except RBackupError
ExceptRBackupError(err) ==
    /\ errors' = Append(errors, err)
    /\ aborted' = aborted
    /\ ti' = 0
    /\ IF CurGroup.skipOnFail
       THEN /\ pc' = "group"
            /\ gi' = gi + 1
            /\ ji' = 0
       ELSE /\ pc' = "job"
            /\ gi' = gi
            /\ ji' = ji + 1

\* except Exception without the breaks of lines 82 and 86
ExceptException_NoBreak(ex) ==
    /\ errors' = Append(errors, ex)
    /\ aborted' = TRUE
    /\ ti' = 0
    /\ pc' = "job"
    /\ gi' = gi
    /\ ji' = ji + 1

\* lines 78-86: except Exception
ExceptException(ex) ==
    /\ errors' = Append(errors, ex)
    /\ aborted' = TRUE
    /\ ti' = 0
    /\ pc' = "summary"
    /\ UNCHANGED <<gi, ji>>

\* the end of a job's try block taken as the end of its group
JobReturns_LeavesGroup ==
    /\ pc' = "group"
    /\ gi' = gi + 1
    /\ ji' = 0
    /\ ti' = 0
    /\ UNCHANGED <<errors, aborted>>

\* the try block of a job ends without an exception
JobReturns ==
    /\ pc' = "job"
    /\ ji' = ji + 1
    /\ ti' = 0
    /\ UNCHANGED <<gi, errors, aborted>>

\* Job.execute starts: the prerequisites first, if any
EnterExecute ==
    /\ pc' = IF CurJob.prereq # <<>> THEN "prereq" ELSE "main"
    /\ ti' = IF CurJob.prereq # <<>> THEN 1 ELSE 0
    /\ UNCHANGED <<gi, ji, errors, aborted>>

\* lines 48-49: the groups to process
FilterGroups ==
    /\ pc = "start"
    /\ rgroups' = filter_groups(groups, config.includeGroups,
                                config.excludeGroups)
    /\ gi' = 1
    /\ pc' = "group"
    /\ UNCHANGED <<arg, ret, rc, config, groups, env, env_original, jobs, ji, ti, errors,
                   aborted, prepared, procs, mails>>

\* lines 50-57: the next group and its jobs; a group without jobs is passed
NextGroup ==
    /\ pc = "group"
    /\ gi <= Len(rgroups)
    /\ LET js == filter_jobs(CurGroup.jobs, config.mode, FALSE)
       IN  IF Len(js) < 1
           THEN /\ gi' = gi + 1
                /\ UNCHANGED <<pc, jobs, ji>>
           ELSE /\ jobs' = js
                /\ ji' = 1
                /\ pc' = "job"
                /\ gi' = gi
    /\ UNCHANGED <<arg, ret, rc, config, groups, env, env_original, rgroups, ti, errors,
                   aborted, prepared, procs, mails>>

\* line 50: no group is left
GroupsDone ==
    /\ pc = "group"
    /\ gi > Len(rgroups)
    /\ pc' = "summary"
    /\ UNCHANGED <<arg, ret, rc, config, groups, env, env_original, rgroups, gi, jobs, ji,
                   ti, errors, aborted, prepared, procs, mails>>

\* lines 58, 85: no job of the group is left (aborted is false here)
JobsDone ==
    /\ pc = "job"
    /\ ji > Len(jobs)
    /\ pc' = "group"
    /\ gi' = gi + 1
    /\ UNCHANGED <<arg, ret, rc, config, groups, env, env_original, rgroups, jobs, ji, ti,
                   errors, aborted, prepared, procs, mails>>

\* lines 59-61: a disabled job
SkipDisabled ==
    /\ pc = "job"
    /\ ji <= Len(jobs)
    /\ ~CurJob.enabled
    /\ ji' = ji + 1
    /\ UNCHANGED <<arg, ret, rc, config, groups, env, env_original, pc, rgroups, gi, jobs,
                   ti, errors, aborted, prepared, procs, mails>>

\* line 67: with --interactive the user is asked, else Job.execute starts
AfterPrepare ==
    IF config.interactive
    THEN pc' = "prompt" /\ UNCHANGED <<gi, ji, ti, errors, aborted>>
    ELSE EnterExecute

\* lines 66, 70-82: what Job.prepare did: r is its result
Prepared(r) ==
    /\ env' = r.e.env
    /\ env_original' = r.e.orig
    /\ prepared' = Append(prepared,
                          [group |-> CurG, job |-> CurJ, exc |-> r.exc,
                           src |-> r.src, dest |-> r.dest,
                           commandline |-> r.commandline])
    /\ IF r.exc = "UnsafeError"
       THEN /\ ExceptRBackupError(Error("UnsafeError",
                   "Won't use current directory (.) as destination.", 0))
            /\ UNCHANGED groups
       ELSE IF r.exc # ""
       THEN /\ ExceptException(Error(r.exc, "", 0))
            /\ UNCHANGED groups
       ELSE /\ groups' = [groups EXCEPT
                  ![CurG].jobs[CurJ].commandline = r.commandline]
            /\ AfterPrepare

\* lines 63-67: the command line of the job is built unless it already is
PrepareJob ==
    /\ pc = "job"
    /\ ji <= Len(jobs)
    /\ CurJob.enabled
    /\ IF CurJob.commandline # <<>>
       THEN /\ UNCHANGED <<groups, env, env_original, prepared>>
            /\ AfterPrepare
       ELSE Prepared(prepare(CurJob, config,
                             [env |-> env, orig |-> env_original]))
    /\ UNCHANGED <<arg, ret, rc, config, rgroups, jobs, procs, mails>>

\* line 67, utils/io.py: the answer to "Run job?"; an invalid answer asks
\* again, end of input makes input() raise EOFError
Prompt(answer) ==
    /\ pc = "prompt"
    /\ CASE answer = "yes" -> EnterExecute
         [] answer = "no"  -> JobReturns
         [] answer = "eof" -> ExceptException(Error("EOFError", "", 0))
         [] OTHER          -> UNCHANGED <<pc, gi, ji, ti, errors, aborted>>
    /\ UNCHANGED <<arg, ret, rc, config, groups, env, env_original, rgroups, jobs,
                   prepared, procs, mails>>

\* a call of subprocess.run: launched is false when the executable cannot be
\* started (OSError)
Proc(kind, argv, launched, code, result) ==
    [group |-> CurG, job |-> CurJ, kind |-> kind, task |-> ti, argv |-> argv,
     launched |-> launched, code |-> IF launched THEN code ELSE 0,
     result |-> result]

\* lines 225-232: one prerequisite task
RunPrereq(launched, code) ==
    /\ pc = "prereq"
    /\ procs' = Append(procs,
           Proc("prereq", PosixEach(CurJob.prereq[ti].command, env), launched,
                code,
                IF ~launched THEN "OSError"
                ELSE IF runTask(CurJob.prereq[ti], code) THEN "True"
                ELSE "False"))
    /\ IF ~launched
       THEN ExceptException(Error("OSError", "", 0))
       ELSE IF ~runTask(CurJob.prereq[ti], code)
       THEN ExceptRBackupError(Error("JobError",
                "Skipping pending task(s) due to failed prerequisite.", 0))
       ELSE /\ IF ti < Len(CurJob.prereq)
               THEN ti' = ti + 1 /\ pc' = pc
               ELSE ti' = 0 /\ pc' = "main"
            /\ UNCHANGED <<gi, ji, errors, aborted>>
    /\ UNCHANGED <<arg, ret, rc, config, groups, env, env_original, rgroups, jobs, prepared,
                   mails>>

\* lines 234-243: the main command; JobSuccess is caught, anything else
\* leaves Job.execute
MainResult(launched, code, res) ==
    /\ procs' = Append(procs, Proc("main", CurJob.commandline, launched, code,
                                   res))
    /\ IF res \in {"JobSuccess", "True"}
       THEN IF CurJob.onSuccess # <<>>
            THEN /\ pc' = "onSuccess"
                 /\ ti' = 1
                 /\ UNCHANGED <<gi, ji, errors, aborted>>
            ELSE JobReturns
       ELSE IF res \in RBackupErrors
       THEN ExceptRBackupError(Error(res, "Job appears to have failed", code))
       ELSE ExceptException(Error(res, "", 0))

RunMain(launched, code) ==
    /\ pc = "main"
    /\ MainResult(launched, code,
                  IF launched THEN runJob(CurJob, code) ELSE "OSError")
    /\ UNCHANGED <<arg, ret, rc, config, groups, env, env_original, rgroups, jobs, prepared,
                   mails>>

\* lines 243-249: one postrun task
RunOnSuccess(launched, code) ==
    /\ pc = "onSuccess"
    /\ procs' = Append(procs,
           Proc("onSuccess", PosixEach(CurJob.onSuccess[ti].command, env),
                launched, code,
                IF ~launched THEN "OSError"
                ELSE IF runTask(CurJob.onSuccess[ti], code) THEN "True"
                ELSE "False"))
    /\ IF ~launched
       THEN ExceptException(Error("OSError", "", 0))
       ELSE IF ~runTask(CurJob.onSuccess[ti], code)
       THEN ExceptRBackupError(Error("JobError",
                                     "Job postrun task has failed.", 0))
       ELSE IF ti < Len(CurJob.onSuccess)
       THEN /\ ti' = ti + 1
            /\ UNCHANGED <<pc, gi, ji, errors, aborted>>
       ELSE JobReturns
    /\ UNCHANGED <<arg, ret, rc, config, groups, env, env_original, rgroups, jobs, prepared,
                   mails>>

\* lines 87-101: the summary mail.  get_mail_config asserts that the mail
\* settings are complete; send_mail returns False when the SMTP dialogue
\* fails (delivered).  run_backups is the last statement of main()
Summary(delivered) ==
    /\ pc = "summary"
    /\ IF SummaryWanted(config)
       THEN IF ~MailConfigured(env)
            THEN MainRaises /\ UNCHANGED mails
            ELSE /\ mails' = Append(mails,
                        [subject   |-> IF Len(errors) > 0
                                       THEN "Backup script error(s)"
                                       ELSE "Backup script success",
                         aborted   |-> aborted,
                         errors    |-> Len(errors),
                         to        |-> config.mailTo,
                         after     |-> Len(procs),
                         delivered |-> delivered])
                 /\ MainReturns
       ELSE MainReturns /\ UNCHANGED mails
    /\ UNCHANGED <<arg, ret, config, groups, env, env_original, rgroups, gi,
                   jobs, ji, ti, errors, aborted, prepared, procs>>

Next ==
    \/ GetConfig
    \/ FilterGroups
    \/ NextGroup
    \/ GroupsDone
    \/ JobsDone
    \/ SkipDisabled
    \/ PrepareJob
    \/ \E answer \in {"yes", "no", "eof", "?"} : Prompt(answer)
    \/ \E launched \in BOOLEAN, code \in ExitCodes : RunPrereq(launched, code)
    \/ \E launched \in BOOLEAN, code \in ExitCodes : RunMain(launched, code)
    \/ \E launched \in BOOLEAN, code \in ExitCodes : RunOnSuccess(launched, code)
    \/ \E delivered \in BOOLEAN : Summary(delivered)

Spec == Init /\ [][Next]_vars

(***************************************************************************)
(* The functions of the program, each called on its own                    *)
(***************************************************************************)
\* run_backups is not running while one function is studied
mainVars == <<rc, config, groups, rgroups, gi, jobs, ji, ti, errors, aborted,
              prepared, procs, mails>>

NotRunning ==
    /\ rc = 1
    /\ config = DefConfig
    /\ groups = <<>>
    /\ pc = "call"
    /\ rgroups = <<>>
    /\ gi = 0
    /\ jobs = <<>>
    /\ ji = 0
    /\ ti = 0
    /\ errors = <<>>
    /\ aborted = FALSE
    /\ prepared = <<>>
    /\ procs = <<>>
    /\ mails = <<>>

(***************************************************************************)
(* Group.filter_groups and Job.filter_jobs                                 *)
(***************************************************************************)
\* most groups of a configuration handed to filter_groups
MaxGroups == 3

\* group dicts: names with and without surrounding blanks, and no name
GroupInputs ==
    {[name |-> n, skipOnFail |-> Unset, jobs |-> <<>>] :
        n \in {"a", " b ", Unset}}

\* job dicts: the mode absent, null, empty or given; one job is disabled
JobInputs ==
    {[DefJob EXCEPT !.mode = m] : m \in {Unset, None, "", "push", "pull"}}
    \cup {[DefJob EXCEPT !.mode = "pull", !.enabled = "false"]}

FilterInputs ==
    {[fn |-> "filter_groups", raw |-> gs, included |-> inc, excluded |-> exc] :
        gs \in SeqUpTo(GroupInputs, MaxGroups),
        inc \in {<<>>, <<"a">>, <<"b", "">>},
        exc \in {<<>>, <<"a">>, <<"", "a">>}}
    \cup
    {[fn |-> "filter_jobs", raw |-> js, backupMode |-> m, enabledOnly |-> e] :
        js \in SeqUpTo(JobInputs, MaxJobs),
        m \in {"any", "push", "pull"}, e \in BOOLEAN}

FilterInit ==
    /\ NotRunning
    /\ env = InitEnv
    /\ env_original = InitEnvOriginal
    /\ arg \in FilterInputs
    /\ ret = <<>>

\* list(filter_groups(groups, included, excluded)) on the Group objects
CallFilterGroups ==
    /\ pc = "call"
    /\ arg.fn = "filter_groups"
    /\ pc' = "returned"
    /\ ret' = filter_groups(Groups(arg.raw, env), arg.included, arg.excluded)
    /\ UNCHANGED <<arg, env, env_original>>
    /\ UNCHANGED mainVars

\* list(filter_jobs(jobs, backupMode, enabledOnly)) on the Job objects
CallFilterJobs ==
    /\ pc = "call"
    /\ arg.fn = "filter_jobs"
    /\ pc' = "returned"
    /\ ret' = filter_jobs(Jobs(arg.raw, env), arg.backupMode, arg.enabledOnly)
    /\ UNCHANGED <<arg, env, env_original>>
    /\ UNCHANGED mainVars

FilterNext == CallFilterGroups \/ CallFilterJobs

FilterSpec == FilterInit /\ [][FilterNext]_vars

(***************************************************************************)
(* utils/path.py: posix_path                                               *)
(***************************************************************************)
\* the environment: user refers to another variable, trunk ends with a
\* separator, remote is the root directory, remotePath is empty
PathEnv ==
    [k \in EnvKeys |-> CASE k = "user"       -> "$root"
                         [] k = "root"       -> "x"
                         [] k = "trunk"      -> "dir/"
                         [] k = "remote"     -> "/"
                         [] k = "remotePath" -> ""
                         [] k = "HOME"       -> "/home/al"
                         [] OTHER            -> Unset]

\* first arguments: empty, roots, trailing separators, backslashes, blanks,
\* dots and variable references
PathInputs ==
    {"", ".", "./", "/", "//", "a/b", "a/b/", "a\\b\\", " a/b/ ", "a//b",
     "/.", "a/..", "/a/../", "\\", "$user", "${user}/", "$trunk", "$remote",
     "$remotePath", "$machineName", "$HOME/"}

\* the segments joined to the first argument
SegmentInputs ==
    {<<>>, <<"">>, <<"b">>, <<"b/">>, <<"b\\">>, <<"/">>, <<".">>,
     <<"", "data">>, <<"t", "">>, <<"$remote">>}

PathInit ==
    /\ NotRunning
    /\ env = PathEnv
    /\ env_original = InitEnvOriginal
    /\ arg \in {[path |-> p, paths |-> ps] :
                   p \in PathInputs, ps \in SegmentInputs}
    /\ ret = <<>>

\* posix_path(path, *paths)
Resolve ==
    /\ pc = "call"
    /\ ret' = <<posix_path(arg.path, arg.paths, env)>>
    /\ pc' = "returned"
    /\ UNCHANGED <<arg, env, env_original>>
    /\ UNCHANGED mainVars

\* posix_path applied to its own result
ResolveAgain ==
    /\ pc = "returned"
    /\ Len(ret) = 1
    /\ ret' = Append(ret, posix_path(ret[1], <<>>, env))
    /\ UNCHANGED <<pc, arg, env, env_original>>
    /\ UNCHANGED mainVars

PathNext == Resolve \/ ResolveAgain

PathSpec == PathInit /\ [][PathNext]_vars

(***************************************************************************)
(* utils/env.py called as a library: writes, removals and restores          *)
(***************************************************************************)
MaxCalls == 4

\* the variables the calls name: one that exists beforehand, one that does not
EnvWriteKeys == {"HOME", "user"}

EnvValues == {"x", "/home/al"}

\* env_update(other, **kwargs): the pairs of other, then those of kwargs
EnvUpdates ==
    {<<<<"user", "x">>, <<"HOME", "x">>>>, <<<<"HOME", "x">>, <<"HOME", "y">>>>}

EnvInit ==
    /\ NotRunning
    /\ env = [k \in EnvKeys |-> IF k = "HOME" THEN "/home/al" ELSE Unset]
    /\ env_original = [k \in EnvKeys |-> Unset]
    /\ arg = [before |-> env, calls |-> 0, keyed |-> FALSE]
    /\ ret = <<>>

\* the state after one more call of the library
EnvCalled(e, keyed) ==
    /\ pc = "call"
    /\ arg.calls < MaxCalls
    /\ env' = e.env
    /\ env_original' = e.orig
    /\ arg' = [arg EXCEPT !.calls = @ + 1, !.keyed = @ \/ keyed]
    /\ UNCHANGED <<pc, ret>>
    /\ UNCHANGED mainVars

EnvSet ==
    \E k \in EnvWriteKeys, v \in EnvValues :
        EnvCalled(env_set([env |-> env, orig |-> env_original], k, v), FALSE)

EnvUpdate ==
    \E pairs \in EnvUpdates :
        EnvCalled(env_update([env |-> env, orig |-> env_original], pairs),
                  FALSE)

EnvRemove ==
    \E k \in EnvWriteKeys :
        EnvCalled(env_remove([env |-> env, orig |-> env_original], k), FALSE)

EnvRestoreKey ==
    \E k \in EnvWriteKeys :
        EnvCalled(env_restore_key([env |-> env, orig |-> env_original], k),
                  TRUE)

\* env_restore() with no key ends the sequence
EnvRestore ==
    /\ pc = "call"
    /\ LET e == [env |-> env, orig |-> env_original]
       IN  /\ env' = env_restore(e).env
           /\ env_original' = env_restore(e).orig
           /\ pc' = IF env_restore_raises(e) THEN "raised" ELSE "returned"
    /\ UNCHANGED <<arg, ret>>
    /\ UNCHANGED mainVars

EnvNext == EnvSet \/ EnvUpdate \/ EnvRemove \/ EnvRestoreKey \/ EnvRestore

EnvSpec == EnvInit /\ [][EnvNext]_vars

(***************************************************************************)
(* classes/job.py: a job whose executable is named by a path, next to the   *)
(* same job with the bare name of the executable                           *)
(***************************************************************************)
\* the part of the executable's name after the last '/' or '\'
RECURSIVE BaseName(_)
BaseName(exec) ==
    LET k == IF FindChar(exec, "/", 1) # 0 THEN FindChar(exec, "/", 1)
             ELSE FindChar(exec, "\\", 1)
    IN  IF k = 0 THEN exec ELSE BaseName(SubSeq(exec, k + 1, Len(exec)))

ToolInputs ==
    {[code |-> c,
      config |-> [DefConfig EXCEPT !.verbose = v],
      job |-> [DefJob EXCEPT !.command.exec = x, !.command.subcommand = sub,
                             !.command.args = a]] :
        c \in ExitCodes, v \in BOOLEAN,
        x \in {"rclone", "/usr/bin/rclone", "bin/rclone", "rclone.exe",
               "C:\\rclone.exe", "/opt/myrclone", "rsync", "/usr/bin/rsync"},
        sub \in {Unset, "sync", "bisync"},
        a \in {ListArgs(<<>>), ListArgs(<<"--error-on-no-transfer">>),
               ListArgs(<<"-P">>)}}

\* the job of arg with the bare name of its executable
BareJob == [arg.job EXCEPT !.command.exec = BaseName(arg.job.command.exec)]

ToolInit ==
    /\ NotRunning
    /\ env = InitEnv
    /\ env_original = InitEnvOriginal
    /\ arg \in ToolInputs
    /\ ret = <<>>

\* Job.prepare(config) for the job and for the bare-named one, each on the
\* environment the process starts with
ToolPrepare ==
    /\ pc = "call"
    /\ LET e == [env |-> env, orig |-> env_original]
           p == prepare(Job(arg.job, env), arg.config, e)
           b == prepare(Job(BareJob, env), arg.config, e)
       IN  /\ ret' = <<p.commandline, b.commandline>>
           /\ env' = p.e.env
           /\ env_original' = p.e.orig
    /\ pc' = "prepared"
    /\ UNCHANGED arg
    /\ UNCHANGED mainVars

\* Job.runJob() when the main command exits with arg.code
ToolRun ==
    /\ pc = "prepared"
    /\ ret' = ret \o <<runJob(Job(arg.job, env), arg.code),
                       runJob(Job(BareJob, env), arg.code)>>
    /\ pc' = "returned"
    /\ UNCHANGED <<arg, env, env_original>>
    /\ UNCHANGED mainVars

ToolNext == ToolPrepare \/ ToolRun

ToolSpec == ToolInit /\ [][ToolNext]_vars

(***************************************************************************)
(* classes/job.py: Job.prepare of a job, first in the process and after     *)
(* another job was prepared                                                 *)
(***************************************************************************)
PrepareInputs ==
    {[config |-> [DefConfig EXCEPT !.type = t, !.trunk = "pc"],
      job |-> [DefJob EXCEPT !.trunk = jt, !.command.args = ListArgs(a),
                             !.destinationRemote = d],
      other |-> [DefJob EXCEPT !.name = "other", !.trunk = ot, !.user = ou]] :
        t \in {"host", "local"},
        jt \in {Unset, "t/$user", "$trunk/x", "$remote"},
        a \in {<<>>, <<"$remotePath/$trunk">>, <<"--chown=$user">>},
        d \in {"data", "$user/data"},
        ot \in {Unset, "o"}, ou \in {Unset, "jo"}}

PrepareInit ==
    /\ NotRunning
    /\ env = InitEnv
    /\ env_original = InitEnvOriginal
    /\ arg \in PrepareInputs
    /\ ret = <<>>

\* job.prepare(config) as the first call of the process
PrepareFirst ==
    /\ pc = "call"
    /\ ret' = <<prepare(Job(arg.job, env), arg.config,
                        [env |-> env, orig |-> env_original]).commandline>>
    /\ pc' = "first"
    /\ UNCHANGED <<arg, env, env_original>>
    /\ UNCHANGED mainVars

\* other.prepare(config) in a process of its own, started as the first was
PrepareOther ==
    /\ pc = "first"
    /\ LET o == prepare(Job(arg.other, env), arg.config,
                        [env |-> env, orig |-> env_original])
       IN  /\ env' = o.e.env
           /\ env_original' = o.e.orig
    /\ pc' = "other"
    /\ UNCHANGED <<arg, ret>>
    /\ UNCHANGED mainVars

\* job.prepare(config) after other.prepare(config)
PrepareSecond ==
    /\ pc = "other"
    /\ LET r == prepare(Job(arg.job, InitEnv), arg.config,
                        [env |-> env, orig |-> env_original])
       IN  /\ ret' = Append(ret, r.commandline)
           /\ env' = r.e.env
           /\ env_original' = r.e.orig
    /\ pc' = "returned"
    /\ UNCHANGED arg
    /\ UNCHANGED mainVars

PrepareNext == PrepareFirst \/ PrepareOther \/ PrepareSecond

PrepareSpec == PrepareInit /\ [][PrepareNext]_vars

(***************************************************************************)
(* What the claims speak about                                             *)
(***************************************************************************)
JobAt(g, j) == groups[g].jobs[j]

\* run_backups is inside the try block of job j of group g
InJob(g, j) ==
    /\ pc \in {"prompt", "prereq", "main", "onSuccess"}
    /\ rgroups[gi] = g
    /\ jobs[ji] = j

\* run_backups has left its loops
Finished == pc \in {"summary", "done", "raised"}

SameJob(a, b) == a.group = b.group /\ a.job = b.job

\* Job.prepare was called for the job, or a subprocess of it was run
Touched(g, j) ==
    \/ \E k \in 1..Len(prepared) : prepared[k].group = g /\ prepared[k].job = j
    \/ \E k \in 1..Len(procs) : procs[k].group = g /\ procs[k].job = j

\* an error of the given class and message is recorded for the job
Recorded(g, j, type, message) ==
    \E k \in 1..Len(errors) :
        /\ errors[k].group = g
        /\ errors[k].job = j
        /\ errors[k].type = type
        /\ errors[k].message = message

\* an expected error: an RBackupError
Expected(e) == e.type \in RBackupErrors

\* --error-on-no-transfer was supplied in the args of the command
FlagSupplied(args) ==
    args.kind = "list" /\ InList("--error-on-no-transfer", args.items)

\* the main command ended in a Success outcome
Succeeded(p) == p.result \in {"JobSuccess", "True"}

(***************************************************************************)
(* C1                                                                      *)
(***************************************************************************)
\* C1: a non-zero exit code of the main command is a success if and only if
\* the tool is rclone, the code is 9 and --error-on-no-transfer was not
\* supplied; every other non-zero exit is a Failure (JobError) carrying the
\* exit code.  Stated for tools named without a directory part and commands
\* that declare an args list.
C1_BenignExitIffRcloneNineNoFlag ==
    \A i \in 1..Len(procs) :
        LET p   == procs[i]
            cmd == JobAt(p.group, p.job).command
        IN  (p.kind = "main" /\ p.launched /\ p.code # 0
             /\ ~Contains(cmd.exec, "/") /\ cmd.args.kind = "list")
            => IF isRclone(Strip(cmd.exec)) /\ p.code = 9
                  /\ ~FlagSupplied(cmd.args)
               THEN Succeeded(p)
               ELSE /\ p.result = "JobError"
                    /\ \E k \in 1..Len(errors) :
                           /\ SameJob(errors[k], p)
                           /\ errors[k].type = "JobError"
                           /\ errors[k].exitcode = p.code

(***************************************************************************)
(* C2                                                                      *)
(***************************************************************************)
\* C2: when an onSuccess task exits with a non-zero code, the job fails with
\* the JobError "Job postrun task has failed." and run_backups records it.
C2_FailedPostrunTaskFailsJob ==
    \A i \in 1..Len(procs) :
        LET p == procs[i]
        IN  (p.kind = "onSuccess" /\ p.launched /\ p.code # 0)
            => Recorded(p.group, p.job, "JobError",
                        "Job postrun task has failed.")

(***************************************************************************)
(* C3                                                                      *)
(***************************************************************************)
RequiredFailed(p) ==
    /\ p.kind = "prereq"
    /\ p.launched
    /\ p.code # 0
    /\ JobAt(p.group, p.job).prereq[p.task].required

\* C3: prereq tasks run in declared order; a non-zero exit of a required
\* prereq task fails the job with the "failed prerequisite" JobError and no
\* subprocess of the job runs afterwards; after any other exit of a prereq
\* task the next prereq task, or after the last one the main command, is next.
C3_RequiredPrereqStopsJob ==
    \A i \in 1..Len(procs) :
        LET p == procs[i]
            n == Len(JobAt(p.group, p.job).prereq)
        IN  p.kind = "prereq" =>
            /\ p.task = IF i > 1 /\ procs[i - 1].kind = "prereq"
                           /\ SameJob(procs[i - 1], p)
                        THEN procs[i - 1].task + 1 ELSE 1
            /\ RequiredFailed(p) =>
                 /\ Recorded(p.group, p.job, "JobError",
                       "Skipping pending task(s) due to failed prerequisite.")
                 /\ i = Len(procs)
                 /\ ~InJob(p.group, p.job)
            /\ (p.launched /\ ~RequiredFailed(p)) =>
                 IF i = Len(procs)
                 THEN /\ InJob(p.group, p.job)
                      /\ IF p.task < n THEN pc = "prereq" /\ ti = p.task + 1
                         ELSE pc = "main"
                 ELSE /\ SameJob(procs[i + 1], p)
                      /\ procs[i + 1].kind = IF p.task < n THEN "prereq"
                                             ELSE "main"

\* a non-required prereq failed and the next, required one failed too
C3_Witness ==
    /\ Len(procs) = 2
    /\ procs[1].kind = "prereq" /\ procs[1].launched /\ procs[1].code # 0
    /\ ~RequiredFailed(procs[1])
    /\ RequiredFailed(procs[2])
    /\ Len(errors) = 1

(***************************************************************************)
(* C4                                                                      *)
(***************************************************************************)
\* C4: when the resolved destination of a job normalizes to '.', without
\* Config.force Job.prepare raises UnsafeError, the commandline of the job
\* stays unset and no subprocess of the job is run; with Config.force the
\* command line is built.
C4_CurrentDirectoryNeedsForce ==
    \A i \in 1..Len(prepared) :
        LET r == prepared[i]
        IN  (r.exc # "TypeError" /\ r.dest # "" /\ NormPath(r.dest) = ".")
            => IF config.force
               THEN r.exc = "" /\ r.commandline # <<>>
               ELSE /\ r.exc = "UnsafeError"
                    /\ JobAt(r.group, r.job).commandline = <<>>
                    /\ \A k \in 1..Len(procs) : ~SameJob(procs[k], r)

(***************************************************************************)
(* C5                                                                      *)
(***************************************************************************)
\* an earlier job of the group failed with an expected error and the group
\* has skipOnFail
Skipped(g, j) ==
    /\ groups[g].skipOnFail
    /\ \E k \in 1..Len(errors) :
           Expected(errors[k]) /\ errors[k].group = g /\ errors[k].job < j

\* C5: an expected error never marks the run aborted; a job that follows an
\* expected failure in a group with skipOnFail is never prepared or executed;
\* and when the loops end without an abort, every other enabled job of every
\* group (the later jobs of a group without skipOnFail, the jobs of the
\* following groups) was processed.
C5_SkipOnFailSkipsRestOfGroupOnly ==
    /\ aborted <=> \E k \in 1..Len(errors) : ~Expected(errors[k])
    /\ \A g \in 1..Len(groups) : \A j \in 1..Len(groups[g].jobs) :
           Touched(g, j) => ~Skipped(g, j)
    /\ (Finished /\ ~aborted) =>
           \A x \in 1..Len(rgroups) :
               LET g  == rgroups[x]
                   js == filter_jobs(groups[g].jobs, config.mode, FALSE)
               IN  \A y \in 1..Len(js) :
                       (groups[g].jobs[js[y]].enabled /\ ~Skipped(g, js[y]))
                       => Touched(g, js[y])

\* job 2 of 3 of a skipOnFail group failed with a JobError: job 3 was
\* skipped, the job of the next group was run
C5_Witness ==
    /\ Finished /\ ~aborted
    /\ Len(groups) = 2 /\ Len(groups[1].jobs) = 3
    /\ groups[1].skipOnFail
    /\ groups[1].jobs[3].enabled
    /\ \E k \in 1..Len(errors) :
           errors[k].type = "JobError" /\ errors[k].group = 1
           /\ errors[k].job = 2
    /\ ~Touched(1, 3)
    /\ \E k \in 1..Len(procs) : procs[k].group = 2 /\ procs[k].kind = "main"

(***************************************************************************)
(* C6                                                                      *)
(***************************************************************************)
\* a is the job of b or comes before it in the run
NotAfter(a, b) == a.group < b.group \/ (a.group = b.group /\ a.job <= b.job)

\* C6: an unexpected error is recorded as the last error, aborted is true from
\* then on, the loops are left, nothing after the failing job was prepared or
\* executed, and nothing is prepared or executed once the run is aborted.
C6_UnexpectedErrorAbortsRun ==
    /\ [](\A k \in 1..Len(errors) :
             ~Expected(errors[k]) =>
                 /\ aborted
                 /\ k = Len(errors)
                 /\ Finished
                 /\ \A m \in 1..Len(prepared) : NotAfter(prepared[m], errors[k])
                 /\ \A m \in 1..Len(procs) : NotAfter(procs[m], errors[k]))
    /\ [][aborted => (aborted' /\ UNCHANGED <<prepared, procs, groups, errors>>)]_vars

\* the executable of job 2 of group 1 was not found: group 2 never ran
C6_Witness ==
    /\ pc = "done" /\ aborted
    /\ Len(groups) = 2
    /\ errors[Len(errors)].type = "OSError"
    /\ errors[Len(errors)].group = 1 /\ errors[Len(errors)].job = 2
    /\ \A j \in 1..Len(groups[2].jobs) : ~Touched(2, j)

(***************************************************************************)
(* C7                                                                      *)
(***************************************************************************)
\* the elements of a command line that are in a set of flags, in order
FlagsIn(commandline, flags) == SelectSeq(commandline, LAMBDA a : a \in flags)

\* the job runs rclone or rsync
RcloneOrRsync(job) ==
    isRclone(Strip(job.command.exec)) \/ isRsync(Strip(job.command.exec))

\* C7: the command line of an rclone or rsync job holds exactly one verbosity
\* flag: -vv if Config.verbose (also when Config.quiet is set as well), else
\* -q if Config.quiet, else -v.
C7_OneVerbosityFlagVerboseFirst ==
    \A i \in 1..Len(prepared) :
        LET r == prepared[i]
        IN  (r.exc = "" /\ RcloneOrRsync(JobAt(r.group, r.job)))
            => FlagsIn(r.commandline, {"-vv", "-v", "-q"})
               = <<IF config.verbose THEN "-vv"
                   ELSE IF config.quiet THEN "-q" ELSE "-v">>

(***************************************************************************)
(* C8                                                                      *)
(***************************************************************************)
FilterNames == {"--filters-file", "--filter-from", "--exclude-from",
                "--include-from"}

\* the flag is in the command line, followed by the resolved file
FlagWithFile(commandline, flag, file) ==
    \E k \in 1..(Len(commandline) - 1) :
        commandline[k] = flag /\ commandline[k + 1] = posix_path(file, <<>>, env)

\* C8: the command line of an rclone or rsync job holds at most one filter
\* flag.  filterFrom, when set, rules out --exclude-from and --include-from
\* and gives rclone --filters-file for bisync and --filter-from otherwise;
\* else excludeFrom, when set, gives --exclude-from; else includeFrom, when
\* set, gives --include-from; the last two for rclone and rsync alike.
C8_OneFilterFlagByPrecedence ==
    \A i \in 1..Len(prepared) :
        LET r    == prepared[i]
            job  == JobAt(r.group, r.job)
            used == FlagsIn(r.commandline, FilterNames)
        IN  (i = Len(prepared) /\ r.exc = "" /\ RcloneOrRsync(job))
            => /\ Len(used) <= 1
               /\ IF Truthy(job.filterFrom)
                  THEN /\ \A k \in 1..Len(used) :
                              used[k] \in {"--filters-file", "--filter-from"}
                       /\ isRclone(Strip(job.command.exec)) =>
                              /\ used = <<IF Strip(Get(job.command.subcommand, "")) = "bisync"
                                          THEN "--filters-file"
                                          ELSE "--filter-from">>
                              /\ FlagWithFile(r.commandline, used[1],
                                              job.filterFrom)
                  ELSE IF Truthy(job.excludeFrom)
                  THEN /\ used = <<"--exclude-from">>
                       /\ FlagWithFile(r.commandline, "--exclude-from",
                                       job.excludeFrom)
                  ELSE IF Truthy(job.includeFrom)
                  THEN /\ used = <<"--include-from">>
                       /\ FlagWithFile(r.commandline, "--include-from",
                                       job.includeFrom)
                  ELSE used = <<>>

\* an rclone bisync job with all three filter files: only --filters-file
C8_Witness ==
    /\ Len(prepared) = 1 /\ prepared[1].exc = ""
    /\ LET job == JobAt(1, 1)
       IN  /\ isRclone(Strip(job.command.exec))
           /\ Strip(Get(job.command.subcommand, "")) = "bisync"
           /\ Truthy(job.filterFrom) /\ Truthy(job.excludeFrom)
           /\ Truthy(job.includeFrom)
    /\ FlagsIn(prepared[1].commandline, FilterNames) = <<"--filters-file">>

\* an rsync job with excludeFrom and includeFrom: only --exclude-from, with
\* $HOME expanded in the file name
C8_WitnessRsync ==
    /\ Len(prepared) = 1 /\ prepared[1].exc = ""
    /\ isRsync(Strip(JobAt(1, 1).command.exec))
    /\ ~Truthy(JobAt(1, 1).filterFrom) /\ Truthy(JobAt(1, 1).includeFrom)
    /\ FlagWithFile(prepared[1].commandline, "--exclude-from", "/home/al/exc")

(***************************************************************************)
(* C9                                                                      *)
(***************************************************************************)
\* the end of a transfer by the one rule: the direct attribute when it is
\* set, else the remote-relative one under remotePath and trunk, else nothing
SelectedEnd(direct, relative) ==
    IF direct # "" THEN posix_path(direct, <<>>, env)
    ELSE IF relative # None
    THEN posix_path(env["remotePath"], <<env["trunk"], relative>>, env)
    ELSE ""

\* s ends with the sequence t
EndsWithSeq(s, t) ==
    Len(s) >= Len(t) /\ SubSeq(s, Len(s) - Len(t) + 1, Len(s)) = t

\* C9: src is the resolved source when source is set, whatever sourceRemote
\* is; else resolve(remotePath, trunk, sourceRemote) when sourceRemote is not
\* null; else empty.  dest likewise.  The command line ends with the ones
\* that are not empty, src before dest, and an empty one adds no argument.
C9_EndsSelectedByOneRule ==
    \A i \in 1..Len(prepared) :
        LET r    == prepared[i]
            job  == JobAt(r.group, r.job)
            ends == (IF r.src # "" THEN <<r.src>> ELSE <<>>)
                    \o (IF r.dest # "" THEN <<r.dest>> ELSE <<>>)
        IN  (i = Len(prepared) /\ r.exc # "TypeError")
            => /\ r.src = SelectedEnd(job.source, job.sourceRemote)
               /\ r.dest = SelectedEnd(job.destination, job.destinationRemote)
               /\ (r.exc = "") =>
                      /\ EndsWithSeq(r.commandline, ends)
                      /\ Len(r.commandline)
                         = Len(CommandHead(job, config, env))
                           + Len(job.command.args.items) + Len(ends)
                      /\ \A k \in 1..Len(r.commandline) : r.commandline[k] # ""

\* source and sourceRemote are both set, only destinationRemote is: the
\* command line ends with the resolved source and the remote destination
C9_Witness ==
    /\ Len(prepared) = 1 /\ prepared[1].exc = ""
    /\ JobAt(1, 1).source = "src/" /\ JobAt(1, 1).sourceRemote = "data"
    /\ JobAt(1, 1).destination = "" /\ JobAt(1, 1).destinationRemote = "data"
    /\ prepared[1].src = "src/"
    /\ EndsWithSeq(prepared[1].commandline, <<"src/", prepared[1].dest>>)
    /\ EndsWith(prepared[1].dest, "/data")

\* neither source nor sourceRemote is set: the command line has the
\* destination as its only end
C9_WitnessOmitted ==
    /\ Len(prepared) = 1 /\ prepared[1].exc = ""
    /\ JobAt(1, 1).source = "" /\ JobAt(1, 1).sourceRemote = None
    /\ prepared[1].src = "" /\ prepared[1].dest = "/dst"
    /\ prepared[1].commandline = <<"rsync", "-v", "/dst">>

(***************************************************************************)
(* C10                                                                     *)
(***************************************************************************)
\* the user of the job: of its command, else its own, else of the Config
UserOf(job) ==
    IF job.command.user \notin {Unset, None, ""} THEN job.command.user
    ELSE IF job.user # "" THEN job.user
    ELSE config.user

\* C10: with a Config of type host, an sshLike tool and a remote without '@',
\* every remote-relative end built by Job.prepare starts with
\* <user>@<remote>: whatever root and trunk are.
C10_HostPathsKeepUserPrefix ==
    \A i \in 1..Len(prepared) :
        LET r      == prepared[i]
            job    == JobAt(r.group, r.job)
            prefix == UserOf(job) \o "@" \o config.remote \o ":"
        IN  (/\ r.exc # "TypeError"
             /\ config.type = "host"
             /\ sshLike(Strip(Get(job.command.exec, "")))
             /\ config.remote # ""
             /\ ~Contains(config.remote, "@"))
            => /\ (job.source = "" /\ job.sourceRemote # None)
                      => StartsWith(r.src, prefix)
               /\ (job.destination = "" /\ job.destinationRemote # None)
                      => StartsWith(r.dest, prefix)

(***************************************************************************)
(* C11                                                                     *)
(***************************************************************************)
\* the positions are in increasing order
Increasing(seq) ==
    \A i \in 1..Len(seq), j \in 1..Len(seq) : i < j => seq[i] < seq[j]

\* the name of a group dict as the Group object has it
NameOf(group) == IF group.name = Unset THEN "" ELSE Strip(group.name)

\* C11: filter_groups yields, in config order, the groups named in the
\* include list when it is not empty, whatever the exclude list is; else the
\* groups not named in the exclude list when it is not empty; else all.
C11_IncludeListWinsOverExcludeList ==
    (arg.fn = "filter_groups" /\ pc = "returned")
    => /\ Increasing(ret)
       /\ \A k \in 1..Len(ret) : ret[k] \in 1..Len(arg.raw)
       /\ \A i \in 1..Len(arg.raw) :
              (\E k \in 1..Len(ret) : ret[k] = i)
              <=> IF arg.included # <<>>
                  THEN \E n \in 1..Len(arg.included) :
                           arg.included[n] = NameOf(arg.raw[i])
                  ELSE IF arg.excluded # <<>>
                  THEN \A n \in 1..Len(arg.excluded) :
                           arg.excluded[n] # NameOf(arg.raw[i])
                  ELSE TRUE

\* both lists are given and name the same group: it is yielded
C11_Witness ==
    /\ arg.fn = "filter_groups" /\ pc = "returned"
    /\ arg.included = <<"a">> /\ arg.excluded = <<"a">>
    /\ Len(arg.raw) = 3
    /\ arg.raw[2].name = "a" /\ arg.raw[3].name = "a"
    /\ ret = <<2, 3>>

(***************************************************************************)
(* C12                                                                     *)
(***************************************************************************)
\* the mode a job dict declares, 'push' when it declares none
DeclaredMode(job) ==
    IF job.mode \in {Unset, None, ""} THEN "push" ELSE job.mode

\* C12: filter_jobs yields, in order, every job under 'any' and under 'push'
\* or 'pull' exactly the jobs of that mode, a job without a mode counting as
\* a 'push' job; with enabledOnly only the enabled ones of them.
C12_JobWithoutModeIsPush ==
    (arg.fn = "filter_jobs" /\ pc = "returned")
    => /\ Increasing(ret)
       /\ \A k \in 1..Len(ret) : ret[k] \in 1..Len(arg.raw)
       /\ \A i \in 1..Len(arg.raw) :
              (\E k \in 1..Len(ret) : ret[k] = i)
              <=> /\ arg.backupMode = "any"
                     \/ arg.backupMode = DeclaredMode(arg.raw[i])
                  /\ arg.enabledOnly => arg.raw[i].enabled = "true"

\* jobs without a mode, with a null mode and with mode pull under 'pull':
\* only the last is yielded
C12_Witness ==
    /\ arg.fn = "filter_jobs" /\ pc = "returned"
    /\ arg.backupMode = "pull" /\ ~arg.enabledOnly
    /\ Len(arg.raw) = 3
    /\ arg.raw[1].mode = Unset /\ arg.raw[2].mode = None
    /\ arg.raw[3].mode = "pull"
    /\ ret = <<3>>

\* the same jobs under 'push': the first two are yielded
C12_WitnessPush ==
    /\ arg.fn = "filter_jobs" /\ pc = "returned" /\ arg.backupMode = "push"
    /\ Len(arg.raw) = 3
    /\ arg.raw[1].mode = Unset /\ arg.raw[2].mode = "" /\ arg.raw[3].mode = "pull"
    /\ ret = <<1, 2>>

(***************************************************************************)
(* C13                                                                     *)
(***************************************************************************)
\* C13: posix_path called with the empty string returns the empty string.
C13_EmptyInputGivesEmptyString ==
    (pc = "returned" /\ arg.path = "" /\ arg.paths = <<>>) => ret[1] = ""

(***************************************************************************)
(* C14                                                                     *)
(***************************************************************************)
\* C14: posix_path is idempotent: applied to its own result under the same
\* environment it returns that result.
C14_ResolveTwiceIsResolveOnce ==
    (pc = "returned" /\ arg.paths = <<>> /\ Len(ret) = 2) => ret[2] = ret[1]

(***************************************************************************)
(* C15                                                                     *)
(***************************************************************************)
\* the last input segment of the call
LastSegment == IF arg.paths # <<>> THEN arg.paths[Len(arg.paths)] ELSE arg.path

EndsWithSeparator(s) == EndsWith(s, "/") \/ EndsWith(s, "\\")

\* a string made of '/' only
OnlySlashes(s) == s # "" /\ \A i \in 1..Len(s) : CharAt(s, i) = "/"

\* C15 as claimed: the result ends with '/' if and only if the last segment
\* ended with '/' or '\'.
C15_TrailingSeparatorIffLastHasOne ==
    (pc = "returned")
    => (EndsWith(ret[1], "/") <=> EndsWithSeparator(LastSegment))

\* C15 as amended: the result ends with '/' whenever the last segment ended
\* with '/' or '\'; when the last segment ends with neither, the result ends
\* with '/' only if the last segment is empty or the result is made of '/'
\* only (a root).
C15_TrailingSeparatorKept ==
    (pc = "returned")
    => /\ EndsWithSeparator(LastSegment) => EndsWith(ret[1], "/")
       /\ (EndsWith(ret[1], "/") /\ ~EndsWithSeparator(LastSegment))
              => (LastSegment = "" \/ OnlySlashes(ret[1]))
       /\ (LastSegment = "" /\ arg.paths # <<>>) => EndsWith(ret[1], "/")

\* "a\b\" keeps its separator as '/', and joined to "b" it loses it
C15_Witness ==
    /\ pc = "returned"
    /\ \/ arg.path = "a\\b\\" /\ arg.paths = <<>> /\ ret[1] = "a/b/"
       \/ arg.path = "a/b/" /\ arg.paths = <<"b">> /\ ret[1] = "a/b/b"

\* C16: after any sequence of env_set, env_update and env_remove calls,
\* env_restore() with no key leaves the environment as it was before the
\* first write and the backup empty
C16_RestoreReturnsToSnapshot ==
    (pc = "returned" /\ "before" \in DOMAIN arg /\ ~arg.keyed) =>
        /\ env = arg.before
        /\ \A k \in EnvKeys : env_original[k] = Unset

\* Config.get was called on the config file and the command line of arg
SetupDone == Len(ret) = 1 /\ "file" \in DOMAIN arg

\* the part of [user@]remote[:root] before the first '@', "" without one
UserPart(remote) ==
    IF remote # Unset /\ Contains(remote, "@")
    THEN SubSeq(remote, 1, FindChar(remote, "@", 1) - 1)
    ELSE ""

\* the config file or the command line names a user
UserGiven ==
    \/ Truthy(arg.file.user)
    \/ UserPart(arg.file.remote) # ""
    \/ arg.args.localBackupRoot = Unset /\ UserPart(arg.args.remote) # ""

\* C17: a Config that is returned has one of the types local, cloud, host in
\* lower case; without a type in the file it is host when a remote and a user
\* are given, cloud when only a remote is, else local; a declared type that
\* is none of the three makes loading fail with BadConfigError
C17_TypeIsOneOfThree ==
    (SetupDone /\ arg.found) =>
        /\ ret[1] = "" => config.type \in {"local", "cloud", "host"}
        /\ (ret[1] = "" /\ arg.file.type = Unset) =>
              config.type = IF config.remote # "" /\ UserGiven THEN "host"
                            ELSE IF config.remote # "" THEN "cloud"
                            ELSE "local"
        /\ (ret[1] = "" /\ arg.file.type # Unset) =>
              config.type = Lower(arg.file.type)
        /\ (arg.file.type # Unset
            /\ Lower(arg.file.type) \notin {"local", "cloud", "host"}) =>
              ret[1] = "BadConfigError"

\* a file without a type whose remote carries the user is loaded as host
C17_Witness ==
    /\ SetupDone
    /\ ret[1] = ""
    /\ arg.file.type = Unset
    /\ ~Truthy(arg.file.user)
    /\ config.type = "host"

\* loading a file of type ftp has failed
C17_WitnessBadType ==
    /\ SetupDone
    /\ arg.file.type = "ftp"
    /\ ret[1] = "BadConfigError"
    /\ pc = "done"

\* C18: for a job whose command.args is the empty string Job.prepare ends
\* without an internal error, and the command line it builds holds no empty
\* argument
C18_EmptyArgsStringAddsNothing ==
    \A i \in 1..Len(prepared) :
        LET r == prepared[i]
            args == JobAt(r.group, r.job).command.args
        IN  (args.kind = "str" /\ args.text = "") =>
                /\ r.exc \in {""} \cup RBackupErrors
                /\ \A k \in 1..Len(r.commandline) : r.commandline[k] # ""

\* the process has ended: sys.exit(rc) is reached
Exited == pc \in {"done", "raised"}

\* Config.get has returned a Config
ConfigLoaded == ret = <<>> \/ ret = <<"">>

\* C19: the exit status is 1 when an exception has left main(), during the
\* setup or during the run, and 0 when the configuration was loaded, every
\* job that was executed succeeded and no exception has left main()
C19_ExitStatus ==
    /\ pc = "raised" => rc = 1
    /\ (pc = "done" /\ ConfigLoaded /\ errors = <<>>) => rc = 0

\* a run that has executed a job and ended without an error
C19_Witness ==
    /\ pc = "done"
    /\ rc = 0
    /\ ret = <<"">>
    /\ errors = <<>>
    /\ \E k \in 1..Len(procs) : procs[k].kind = "main" /\ Succeeded(procs[k])

\* the config file was not found: FileNotFoundError leaves main()
C19_WitnessSetup ==
    /\ pc = "raised"
    /\ rc = 1
    /\ ret = <<"FileNotFoundError">>

\* a run that has ended with the AssertionError of get_mail_config
C19_WitnessRun ==
    /\ pc = "raised"
    /\ rc = 1
    /\ ConfigLoaded
    /\ SummaryWanted(config)

\* run_backups has ended
RunBackupsEnded == Exited /\ ConfigLoaded

\* Config.logFile is set and Config.mailTo is not empty
LogAndRecipients ==
    /\ config.logFile \notin {None, False, ""}
    /\ Len(config.mailTo) > 0

\* the jobs that have failed: Job.prepare raised, or execute raised an error
FailedJobs ==
    {<<prepared[k].group, prepared[k].job>> :
        k \in {i \in 1..Len(prepared) : prepared[i].exc # ""}}
    \cup {<<procs[k].group, procs[k].job>> :
        k \in {i \in 1..Len(procs) :
                  ~procs[i].launched \/ procs[i].result = "JobError"}}

\* what every summary says: the number of errors recorded, one for each job
\* that failed, aborted when the run was aborted, and no subprocess after it
SummaryContents ==
    /\ Len(mails) <= 1
    /\ ~Exited => mails = <<>>
    /\ \A i \in 1..Len(mails) :
          /\ mails[i].errors = Len(errors)
          /\ mails[i].aborted = aborted
          /\ mails[i].after = Len(procs)
          /\ mails[i].to = config.mailTo
    /\ \A a, b \in 1..Len(errors) : a # b => ~SameJob(errors[a], errors[b])
    /\ RunBackupsEnded =>
          \A f \in FailedJobs :
              \E k \in 1..Len(errors) :
                  errors[k].group = f[1] /\ errors[k].job = f[2]

C20_WitnessNoRecipient ==
    /\ RunBackupsEnded
    /\ config.logFile = "log.txt"
    /\ config.mailTo = <<>>
    /\ mails = <<>>
    /\ Len(procs) > 0

\* C21: a job whose executable is a path to rclone gets the command line of
\* the job with the bare name (the executable itself apart), and its exit
\* code is judged as that of the bare-named job is
C21_PathToRcloneIsRclone ==
    ("job" \in DOMAIN arg /\ "code" \in DOMAIN arg
     /\ BaseName(arg.job.command.exec) \in {"rclone", "rclone.exe"}) =>
        /\ pc \in {"prepared", "returned"} =>
              /\ ret[1] # <<>>
              /\ Tail(ret[1]) = Tail(ret[2])
        /\ pc = "returned" => ret[3] = ret[4]

\* a subprocess of the job was run
Ran(g, j) == \E k \in 1..Len(procs) : procs[k].group = g /\ procs[k].job = j

\* an error of the job is recorded
Failed(g, j) == \E k \in 1..Len(errors) : errors[k].group = g /\ errors[k].job = j

\* the loop goes on with the job after the current one, and nothing is run
\* or recorded
PassedOver ==
    /\ procs' = procs
    /\ errors' = errors
    /\ aborted' = aborted
    /\ rgroups' = rgroups
    /\ jobs' = jobs
    /\ gi' = gi
    /\ ji' = ji + 1
    /\ pc' = "job"

\* C22: a job that is disabled, or that the user declines at the prompt, runs
\* no subprocess and records no error, and the loop goes on with the next job
\* of the same group, skipOnFail or not
C22_SkippedJobLeavesNoTrace ==
    /\ [](\A g \in 1..Len(groups) : \A j \in 1..Len(groups[g].jobs) :
            ~groups[g].jobs[j].enabled => ~Ran(g, j) /\ ~Failed(g, j))
    /\ [](pc = "prompt" => ~Ran(CurG, CurJ) /\ ~Failed(CurG, CurJ))
    /\ [][(SkipDisabled \/ Prompt("no")) => PassedOver]_vars

\* the first job of a skipOnFail group was declined and the second one ran
C22_Witness ==
    /\ config.interactive
    /\ groups[1].skipOnFail
    /\ groups[1].jobs[1].enabled
    /\ \E k \in 1..Len(prepared) :
          prepared[k].group = 1 /\ prepared[k].job = 1 /\ prepared[k].exc = ""
    /\ ~Ran(1, 1)
    /\ ~Failed(1, 1)
    /\ Ran(1, 2)

\* a disabled job was passed over and the job after it ran
C22_WitnessDisabled ==
    /\ Len(groups) > 0
    /\ Len(groups[1].jobs) > 1
    /\ ~groups[1].jobs[1].enabled
    /\ Ran(1, 2)
    /\ errors = <<>>

\* C23: the groups of a loaded Config have names that are not empty once
\* trimmed, and no two of them have the same name
C23_GroupNamesSetAndUnique ==
    (pc # "setup" /\ ConfigLoaded) =>
        /\ \A g \in 1..Len(groups) : Strip(groups[g].name) # ""
        /\ \A g, h \in 1..Len(groups) :
              g # h => groups[g].name # groups[h].name

\* a non-zero exit code that is no failure: rclone, code 9, and the flag
\* --error-on-no-transfer was not supplied
BenignExit(job, code) ==
    /\ BaseName(Strip(job.command.exec)) \in {"rclone", "rclone.exe"}
    /\ code = 9
    /\ ~FlagSupplied(job.command.args)

\* the subprocess before procs[i] belongs to the same job and is of kind
PrecededBy(i, kind) ==
    i > 1 /\ SameJob(procs[i - 1], procs[i]) /\ procs[i - 1].kind = kind

\* the main command is launched at most once for a job, after each of its
\* prereq tasks was run; onSuccess tasks come in declared order after a main
\* command that succeeded: success tells which exits of the main command
\* count as a success
JobOrder(success(_)) ==
    \A i \in 1..Len(procs) :
        LET p   == procs[i]
            job == JobAt(p.group, p.job)
        IN  /\ p.kind = "main" =>
                 /\ \A k \in 1..Len(procs) :
                       (k # i /\ SameJob(procs[k], p)) => procs[k].kind # "main"
                 /\ \A t \in 1..Len(job.prereq) :
                       \E k \in 1..(i - 1) :
                           /\ SameJob(procs[k], p)
                           /\ procs[k].kind = "prereq"
                           /\ procs[k].task = t
            /\ p.kind = "onSuccess" =>
                 /\ IF p.task = 1 THEN PrecededBy(i, "main")
                    ELSE /\ PrecededBy(i, "onSuccess")
                         /\ procs[i - 1].task = p.task - 1
                 /\ \E m \in 1..(i - 1) :
                       /\ SameJob(procs[m], p)
                       /\ procs[m].kind = "main"
                       /\ success(procs[m])

\* the main command exited with 0 or with a benign code
ExitedWell(p) ==
    p.launched /\ (p.code = 0 \/ BenignExit(JobAt(p.group, p.job), p.code))

\* C24: a job runs its prereq tasks, then its main command once, then its
\* onSuccess tasks in declared order, the latter only when the main command
\* exited with 0 or with a benign non-zero code, never after it failed
C24_JobFollowsStateMachine == JobOrder(ExitedWell)

\* the same order, with the exits Job.runJob takes for a success
C24_OrderAsRunJobJudges == JobOrder(Succeeded)

\* the part of [user@]remote[:root] after the first ':' that follows the
\* user, "" without one
RootPart(remote) ==
    LET rest == IF remote # Unset /\ Contains(remote, "@")
                THEN SubSeq(remote, FindChar(remote, "@", 1) + 1, Len(remote))
                ELSE remote
    IN  IF rest # Unset /\ Contains(rest, ":")
        THEN SubSeq(rest, FindChar(rest, ":", 1) + 1, Len(rest))
        ELSE ""

\* C25: a user and a root the config file defines on their own win over the
\* ones inside its remote string, and only a user or root inside the value
\* of --remote overrides them; the remote is that of --remote when given
C25_SeparateUserAndRootWin ==
    (SetupDone /\ arg.found /\ ret[1] = "" /\ Truthy(arg.file.user)
     /\ Truthy(arg.file.root) /\ arg.args.localBackupRoot = Unset) =>
        /\ config.user = IF UserPart(arg.args.remote) # ""
                         THEN UserPart(arg.args.remote) ELSE arg.file.user
        /\ config.root = posix_path(IF RootPart(arg.args.remote) # ""
                                    THEN RootPart(arg.args.remote)
                                    ELSE arg.file.root, <<>>, InitEnv)
        /\ arg.args.remote # Unset =>
              \E u \in {"", UserPart(arg.args.remote) \o "@"} :
                  \E r \in {"", ":" \o RootPart(arg.args.remote)} :
                      arg.args.remote = u \o config.remote \o r

\* C26: the command line Job.prepare builds for a job is the same whether or
\* not another job was prepared before it
C26_CommandLineIgnoresEarlierJobs ==
    (pc = "returned" /\ "other" \in DOMAIN arg) =>
        /\ ret[1] # <<>>
        /\ ret[2] = ret[1]

====
